---- MODULE Spec2Model ----
(***************************************************************************)
(* Model of the ARandR transition engine (screenlayout/xrandr/transition)  *)
(* bound to one parsed Server snapshot.                                     *)
(*                                                                          *)
(* Python strings are tuples of one-character strings, so that formatting   *)
(* ("%dx%d", "%#x", str(float)) and parsing (int(), float(), argparse) are  *)
(* computed character by character.  An optional attribute (None or a       *)
(* value) is the empty set or a singleton set.                              *)
(***************************************************************************)
EXTENDS Integers, Sequences, FiniteSets, TLC

\* ------------------------------------------------------------------------
\* Bounds of the model
\* ------------------------------------------------------------------------

\* largest number of attributes of a transition that differ from the no-op
\* transition at any time
MaxPending == 2

\* largest number of calls of transition.predict_server()
MaxPredictions == 1

\* server.virtual.max of the modelled snapshot
VirtualMaxWidth == 4

VirtualMaxHeight == 3

\* ------------------------------------------------------------------------
\* Optional values
\* ------------------------------------------------------------------------

None == {}

Some(v) == {v}

Get(opt) == CHOOSE v \in opt : TRUE

\* ------------------------------------------------------------------------
\* Strings
\* ------------------------------------------------------------------------

DigitChars == <<"0", "1", "2", "3", "4", "5", "6", "7", "8", "9",
                "a", "b", "c", "d", "e", "f">>

UpperHexChars == <<"A", "B", "C", "D", "E", "F">>

DecimalChars == {DigitChars[i] : i \in 1..10}

HexChars == {DigitChars[i] : i \in 1..16} \cup {UpperHexChars[i] : i \in 1..6}

DigitValue(c) ==
    IF \E i \in 1..16 : DigitChars[i] = c
    THEN (CHOOSE i \in 1..16 : DigitChars[i] = c) - 1
    ELSE (CHOOSE i \in 1..6 : UpperHexChars[i] = c) + 9

RECURSIVE NatToStr(_, _)
\* digits of the natural number n in the given base, most significant first
NatToStr(n, base) ==
    IF n < base THEN <<DigitChars[n + 1]>>
    ELSE NatToStr(n \div base, base) \o <<DigitChars[(n % base) + 1]>>

\* "%d" % n
FormatInt(n) == IF n < 0 THEN <<"-">> \o NatToStr(0 - n, 10) ELSE NatToStr(n, 10)

\* "%#x" % n
FormatHex(n) ==
    IF n < 0 THEN <<"-", "0", "x">> \o NatToStr(0 - n, 16)
    ELSE <<"0", "x">> \o NatToStr(n, 16)

RECURSIVE StrToNat(_, _)
\* value of a non-empty string of digits of the given base
StrToNat(s, base) ==
    IF Len(s) = 1 THEN DigitValue(s[1])
    ELSE StrToNat(SubSeq(s, 1, Len(s) - 1), base) * base + DigitValue(s[Len(s)])

AllIn(s, chars) == \A i \in 1..Len(s) : s[i] \in chars

\* int(s): None stands for ValueError
ParseInt(s) ==
    LET signed == Len(s) > 0 /\ s[1] \in {"-", "+"}
        digits == IF signed THEN SubSeq(s, 2, Len(s)) ELSE s
    IN  IF Len(digits) = 0 \/ ~AllIn(digits, DecimalChars) THEN None
        ELSE IF signed /\ s[1] = "-" THEN Some(0 - StrToNat(digits, 10))
        ELSE Some(StrToNat(digits, 10))

RECURSIVE Split(_, _)
\* s.split(sep) for a one-character separator
Split(s, sep) ==
    IF \A i \in 1..Len(s) : s[i] # sep THEN <<s>>
    ELSE LET k == CHOOSE i \in 1..Len(s) :
                    s[i] = sep /\ \A j \in 1..(i - 1) : s[j] # sep
         IN  <<SubSeq(s, 1, k - 1)>> \o Split(SubSeq(s, k + 1, Len(s)), sep)

StartsWith(s, prefix) ==
    Len(s) >= Len(prefix) /\ SubSeq(s, 1, Len(prefix)) = prefix

\* ------------------------------------------------------------------------
\* auxiliary.Position
\* ------------------------------------------------------------------------

\* a Position is the pair <<left, top>>
Position_str(p) == FormatInt(p[1]) \o <<"x">> \o FormatInt(p[2])

\* Position("<left>x<top>"): None stands for ValueError
Position_new(s) ==
    LET parts == Split(s, "x")
        ints == [i \in 1..Len(parts) |-> ParseInt(parts[i])]
    IN  IF \E i \in 1..Len(parts) : ints[i] = None THEN None
        ELSE IF Len(parts) # 2 THEN None
        ELSE Some(<<Get(ints[1]), Get(ints[2])>>)

\* ------------------------------------------------------------------------
\* Refresh rates: a float is modelled as a number of tenths
\* ------------------------------------------------------------------------

\* str(rate) of a float with one decimal
Rate_str(r) == NatToStr(r \div 10, 10) \o <<".">> \o NatToStr(r % 10, 10)

\* float(s) for strings with one decimal; None stands for ValueError
ParseFloat(s) ==
    LET parts == Split(s, ".")
    IN  IF Len(parts) = 2 /\ Len(parts[1]) > 0 /\ Len(parts[2]) = 1
           /\ AllIn(parts[1], DecimalChars) /\ AllIn(parts[2], DecimalChars)
        THEN Some(StrToNat(parts[1], 10) * 10 + StrToNat(parts[2], 10))
        ELSE IF Len(parts) = 1 /\ Len(s) > 0 /\ AllIn(s, DecimalChars)
        THEN Some(StrToNat(s, 10) * 10)
        ELSE None

\* ------------------------------------------------------------------------
\* Command line tokens
\* ------------------------------------------------------------------------

OPT_noprimary == <<"-", "-", "n", "o", "p", "r", "i", "m", "a", "r", "y">>

OPT_output == <<"-", "-", "o", "u", "t", "p", "u", "t">>

OPT_primary == <<"-", "-", "p", "r", "i", "m", "a", "r", "y">>

OPT_pos == <<"-", "-", "p", "o", "s">>

OPT_mode == <<"-", "-", "m", "o", "d", "e">>

OPT_rate == <<"-", "-", "r", "a", "t", "e">>

OPT_off == <<"-", "-", "o", "f", "f">>

OPT_auto == <<"-", "-", "a", "u", "t", "o">>

OPT_rotate == <<"-", "-", "r", "o", "t", "a", "t", "e">>

\* ------------------------------------------------------------------------
\* The Server snapshot
\* ------------------------------------------------------------------------

LVDS1 == <<"L", "V", "D", "S", "1">>

HDMI1 == <<"H", "D", "M", "I", "1">>

\* a name that is not an output of the server
DP1 == <<"D", "P", "1">>

Name_2x2 == <<"2", "x", "2">>

Name_3x1 == <<"3", "x", "1">>

Name_1x1 == <<"1", "x", "1">>

\* Server.ServerMode objects of the snapshot
Mode_4b == [id |-> 75, name |-> Name_2x2, width |-> 2, height |-> 2,
            is_preferred |-> TRUE, is_current |-> TRUE]

Mode_4c == [id |-> 76, name |-> Name_3x1, width |-> 3, height |-> 1,
            is_preferred |-> FALSE, is_current |-> FALSE]

Mode_4d == [id |-> 77, name |-> Name_1x1, width |-> 1, height |-> 1,
            is_preferred |-> TRUE, is_current |-> FALSE]

\* auxiliary.Geometry is the 4-tuple (width, height, left, top)
Geometry(width, height, left, top) == <<width, height, left, top>>

Geometry_width(g) == g[1]

Geometry_height(g) == g[2]

Geometry_left(g) == g[3]

Geometry_top(g) == g[4]

Geometry_position(g) == <<g[3], g[4]>>

\* the Server as Server.load leaves it: LVDS1 is active with mode 0x4b at
\* +0+0, HDMI1 is connected but not active (it has no geometry attribute)
ParsedServer ==
    [virtual |-> [max |-> <<VirtualMaxWidth, VirtualMaxHeight>>],
     primary |-> None,
     outputs |->
        (LVDS1 :> [name |-> LVDS1, active |-> TRUE, mode_number |-> Some(75),
                   geometry |-> Some(Geometry(2, 2, 0, 0)),
                   assigned_modes |-> <<Mode_4b, Mode_4c>>])
        @@
        (HDMI1 :> [name |-> HDMI1, active |-> FALSE, mode_number |-> None,
                   geometry |-> None,
                   assigned_modes |-> <<Mode_4c, Mode_4d>>])]

\* iteration order of a dictionary keyed by output names
DictOrder == <<LVDS1, HDMI1, DP1>>

\* list(d) for a dictionary with the given keys
Keys(names) == SelectSeq(DictOrder, LAMBDA n : n \in names)

\* ------------------------------------------------------------------------
\* State
\* ------------------------------------------------------------------------

VARIABLES
    server,        \* transition.server (shared with transition.predicted_server)
    outputs,       \* transition.outputs: name -> TransitionOutput attributes
    primary,       \* transition.primary
    predictions,   \* number of calls of transition.predict_server() so far
    lastOp,        \* the operation that ran last
    lastOutput,    \* the output it ran on (optional)
    raised,        \* the exception it raised (NoException if it returned)
    returned,      \* the argument vector it returned (optional)
    repaired,      \* shove_to_fit: positions after the per-output repairs
    loaded,        \* the fresh Transition filled by load (optional)
    callArgs,      \* Server parser and polygon: the arguments of the call
    result,        \* Server parser and polygon: what the call built (optional)
    contexts       \* executions: the fields of the context objects (optional)

vars == <<server, outputs, primary, predictions, lastOp, lastOutput,
          raised, returned, repaired, loaded, callArgs, result, contexts>>

NoException == [type |-> "", msg |-> ""]

Exception(type, msg) == [type |-> type, msg |-> msg]

\* transition.primary: unset, the NO_PRIMARY sentinel, or a TransitionOutput
PrimaryUnset == [kind |-> "None", output |-> <<>>]

NO_PRIMARY == [kind |-> "NO_PRIMARY", output |-> <<>>]

PrimaryOutput(name) == [kind |-> "output", output |-> name]

\* TransitionOutputFor{Mode,Position}._initialize_empty
EmptyTransitionOutput ==
    [named_mode |-> None, precise_mode |-> None, rate |-> None,
     auto |-> FALSE, off |-> FALSE, position |-> None]

\* variant: a TransitionOutput only for the outputs that are active
BaseTransition_initialize_empty_active(srv) ==
    [name \in {n \in DOMAIN srv.outputs : srv.outputs[n].active} |->
        EmptyTransitionOutput]

\* BaseTransition._initialize_empty: one TransitionOutput per server output
BaseTransition_initialize_empty(srv) ==
    [name \in DOMAIN srv.outputs |-> EmptyTransitionOutput]

\* number of attributes that differ from the no-op transition
Pending(outs, pri) ==
    LET fields == {"named_mode", "precise_mode", "rate", "auto", "off", "position"}
    IN  Cardinality({<<name, f>> \in (DOMAIN outs) \X fields :
                        outs[name][f] # EmptyTransitionOutput[f]})
        + (IF pri = PrimaryUnset THEN 0 ELSE 1)

\* The transition stays within the bounds of the model.  Attributes are
\* changed before the first prediction only.
WithinBounds(outs, pri, predicted) ==
    Pending(outs, pri) <= MaxPending /\ predicted = 0

Init ==
    /\ server = ParsedServer
    /\ outputs = BaseTransition_initialize_empty(server)
    /\ primary = PrimaryUnset
    /\ predictions = 0
    /\ lastOp = "__init__"
    /\ lastOutput = None
    /\ raised = NoException
    /\ returned = None
    /\ repaired = None
    /\ loaded = None
    /\ callArgs = None
    /\ result = None
    /\ contexts = None

\* ------------------------------------------------------------------------
\* Attribute assignment
\* ------------------------------------------------------------------------

\* values the callers assign
NamedModes == {Name_2x2, Name_3x1}

PreciseModes == {75}

Rates == {600}

SetPositions == {<<-1, 2>>, <<3, -1>>}

\* bookkeeping of an operation: what it raised and what it returned
Outcome(op, out, exc, ret) ==
    /\ lastOp' = op
    /\ lastOutput' = out
    /\ raised' = exc
    /\ returned' = ret
    /\ UNCHANGED <<callArgs, result, contexts>>

\* bookkeeping of an operation that returns None
Returns(op, out) ==
    /\ Outcome(op, out, NoException, None)
    /\ repaired' = None
    /\ loaded' = None

SetAttribute(name, field, value) ==
    /\ outputs[name][field] # value
    /\ outputs' = [outputs EXCEPT ![name][field] = value]
    /\ WithinBounds(outputs', primary, predictions)
    /\ Returns("setattr", None)
    /\ UNCHANGED <<server, primary, predictions>>

SetNamedMode ==
    \E name \in DOMAIN outputs, v \in {None} \cup {Some(n) : n \in NamedModes} :
        SetAttribute(name, "named_mode", v)

SetPreciseMode ==
    \E name \in DOMAIN outputs, v \in {None} \cup {Some(n) : n \in PreciseModes} :
        SetAttribute(name, "precise_mode", v)

SetRate ==
    \E name \in DOMAIN outputs, v \in {None} \cup {Some(r) : r \in Rates} :
        SetAttribute(name, "rate", v)

SetAuto ==
    \E name \in DOMAIN outputs, v \in BOOLEAN : SetAttribute(name, "auto", v)

SetOff ==
    \E name \in DOMAIN outputs, v \in BOOLEAN : SetAttribute(name, "off", v)

SetPosition ==
    \E name \in DOMAIN outputs, v \in {None} \cup {Some(p) : p \in SetPositions} :
        SetAttribute(name, "position", v)

SetPrimary ==
    \E v \in {PrimaryUnset, NO_PRIMARY} \cup {PrimaryOutput(n) : n \in DOMAIN outputs} :
        /\ primary # v
        /\ primary' = v
        /\ WithinBounds(outputs, primary', predictions)
        /\ Returns("setattr", None)
        /\ UNCHANGED <<server, outputs, predictions>>

\* ------------------------------------------------------------------------
\* Mode aspect (transition/mode.py)
\* ------------------------------------------------------------------------

\* any(x is not None for x in (precise_mode, named_mode, rate))
AnyModeSetting(to) ==
    to.precise_mode # None \/ to.named_mode # None \/ to.rate # None

\* variant: the off check does not look at auto
TransitionOutputForMode_validate_lax(to) ==
    IF to.precise_mode # None /\ (to.rate # None \/ to.named_mode # None)
    THEN Exception("InadequateConfiguration", "precise mode with name or rate")
    ELSE IF to.auto /\ AnyModeSetting(to)
    THEN Exception("InadequateConfiguration", "auto with mode")
    ELSE IF to.off /\ AnyModeSetting(to)
    THEN Exception("InadequateConfiguration", "off with mode")
    ELSE NoException

TransitionOutputForMode_validate(to) ==
    IF to.precise_mode # None /\ (to.rate # None \/ to.named_mode # None)
    THEN Exception("InadequateConfiguration", "precise mode with name or rate")
    ELSE IF to.auto /\ AnyModeSetting(to)
    THEN Exception("InadequateConfiguration", "auto with mode")
    ELSE IF to.off /\ (AnyModeSetting(to) \/ to.auto)
    THEN Exception("InadequateConfiguration", "off with mode")
    ELSE NoException

\* variant: the key is the area alone
ModeKeyLess_area(a, b) ==
    a.width * a.height < b.width * b.height

\* the key (m.is_preferred, m.width * m.height) of a is smaller than that of b
ModeKeyLess(a, b) ==
    \/ ~a.is_preferred /\ b.is_preferred
    \/ a.is_preferred = b.is_preferred /\ a.width * a.height < b.width * b.height

\* max(modes, key=...) of a non-empty sequence: the first maximal element
MaxMode(modes) ==
    LET best == CHOOSE i \in 1..Len(modes) :
                    /\ \A j \in 1..Len(modes) : ~ModeKeyLess(modes[i], modes[j])
                    /\ \A j \in 1..(i - 1) : ModeKeyLess(modes[j], modes[i])
    IN  modes[best]

\* Server.Output.mode
Output_mode(so) ==
    LET found == {i \in 1..Len(so.assigned_modes) :
                    Some(so.assigned_modes[i].id) = so.mode_number}
    IN  IF found = {} THEN [exc |-> "ValueError", mode |-> None]
        ELSE [exc |-> "",
              mode |-> Some(so.assigned_modes[CHOOSE i \in found :
                                                \A j \in found : i <= j])]

\* the value is None, the int precise_mode, or a mode of the server output
TransitionOutputForMode_get_configured_mode(to, so) ==
    IF to.precise_mode = None /\ to.named_mode = None
    THEN [exc |-> "", kind |-> "None", mode |-> None]
    ELSE IF to.precise_mode # None /\ Get(to.precise_mode) # 0
    THEN [exc |-> "", kind |-> "int", mode |-> None]
    ELSE LET named == SelectSeq(so.assigned_modes,
                                LAMBDA m : Some(m.name) = to.named_mode)
         IN  IF named = <<>> THEN [exc |-> "ValueError", kind |-> "None", mode |-> None]
             ELSE [exc |-> "", kind |-> "mode", mode |-> Some(MaxMode(named))]

\* attributes and exception after output.set_any_mode()
TransitionOutputForMode_set_any_mode(to, so) ==
    IF (to.named_mode # None /\ Get(to.named_mode) # <<>>)
       \/ (to.precise_mode # None /\ Get(to.precise_mode) # 0)
    THEN [exc |-> NoException, out |-> to]
    ELSE LET cleared == [to EXCEPT !.auto = FALSE, !.off = FALSE]
             current == Output_mode(so)
         IN  IF so.active
             THEN IF current.exc # ""
                  THEN [exc |-> Exception(current.exc, "mode"), out |-> cleared]
                  ELSE [exc |-> NoException,
                        out |-> [cleared EXCEPT !.named_mode = Some(Get(current.mode).name)]]
             ELSE IF so.assigned_modes = <<>>
                  THEN [exc |-> Exception("ValueError", "max"), out |-> cleared]
                  ELSE [exc |-> NoException,
                        out |-> [cleared EXCEPT
                                   !.named_mode = Some(MaxMode(so.assigned_modes).name)]]

\* ------------------------------------------------------------------------
\* Position aspect (transition/position.py)
\* ------------------------------------------------------------------------

\* attributes and exception after output.set_any_position()
TransitionOutputForPosition_set_any_position(to, so) ==
    IF so.active
    THEN IF so.geometry = None
         THEN [exc |-> Exception("AttributeError", "geometry"), out |-> to]
         ELSE [exc |-> NoException,
               out |-> [to EXCEPT !.position = Some(Geometry_position(Get(so.geometry)))]]
    ELSE [exc |-> NoException, out |-> [to EXCEPT !.position = Some(<<0, 0>>)]]

TransitionOutputForPosition_shift(to, delta) ==
    [to EXCEPT !.position = Some(<<Get(to.position)[1] + delta[1],
                                   Get(to.position)[2] + delta[2]>>)]

\* the shift that brings the far edges of a mode at this position inside
ShoveDelta(position, width, height, virtualsize) ==
    LET max_x == position[1] + width
        max_y == position[2] + height
    IN  <<IF max_x > virtualsize[1] THEN virtualsize[1] - max_x ELSE 0,
          IF max_y > virtualsize[2] THEN virtualsize[2] - max_y ELSE 0>>

\* output.shove_to_fit() of an output that has a position; configured is what
\* get_configured_mode() gave and current what server_output.mode gave
TransitionOutputForPosition_shove_positioned(to, configured, current, virtualsize) ==
    IF configured.exc # ""
    THEN [exc |-> Exception(configured.exc, "max"), out |-> to]
    ELSE IF configured.kind = "int"
    THEN [exc |-> Exception("AttributeError", "width"), out |-> to]
    ELSE IF configured.kind = "None" /\ current.exc # ""
    THEN [exc |-> Exception(current.exc, "mode"), out |-> to]
    ELSE LET assumed_mode == IF configured.kind = "mode"
                             THEN Get(configured.mode)
                             ELSE Get(current.mode)
         IN  [exc |-> NoException,
              out |-> TransitionOutputForPosition_shift(to,
                         ShoveDelta(Get(to.position), assumed_mode.width,
                                    assumed_mode.height, virtualsize))]

\* attributes and exception after output.shove_to_fit()
TransitionOutputForPosition_shove_to_fit(to, so, virtualsize) ==
    IF to.position = None THEN [exc |-> NoException, out |-> to]
    ELSE TransitionOutputForPosition_shove_positioned(
             to, TransitionOutputForMode_get_configured_mode(to, so),
             Output_mode(so), virtualsize)

RECURSIVE BaseTransition_shove_to_fit(_, _, _)
\* the loop after shove_to_fit() of the i-th output gave r
BaseTransition_shove_to_fit_next(outs, srv, i, r) ==
    IF r.exc # NoException THEN [exc |-> r.exc, outputs |-> outs]
    ELSE BaseTransition_shove_to_fit(
             [outs EXCEPT ![Keys(DOMAIN outs)[i]] = r.out], srv, i + 1)

\* the loop over outputs.values(), from the i-th output on
BaseTransition_shove_to_fit(outs, srv, i) ==
    IF i > Len(Keys(DOMAIN outs)) THEN [exc |-> NoException, outputs |-> outs]
    ELSE BaseTransition_shove_to_fit_next(outs, srv, i,
             TransitionOutputForPosition_shove_to_fit(
                 outs[Keys(DOMAIN outs)[i]], srv.outputs[Keys(DOMAIN outs)[i]],
                 srv.virtual.max))

SetMin(S) == CHOOSE x \in S : \A y \in S : x <= y

\* variant: always moves the minimum corner to the origin
NormalizeDelta_corner(min_x, min_y) ==
    <<0 - min_x, 0 - min_y>>

\* the translation of the whole-screen pass
NormalizeDelta(min_x, min_y) ==
    <<IF min_x < 0 THEN 0 - min_x ELSE 0, IF min_y < 0 THEN 0 - min_y ELSE 0>>

\* variant: translates every output, one without position from (0, 0)
TransitionForPosition_normalize_all(outs) ==
    LET positioned_outputs == {n \in DOMAIN outs : outs[n].position # None}
    IN  IF positioned_outputs = {} THEN outs
        ELSE LET min_x == SetMin({Get(outs[n].position)[1] : n \in positioned_outputs})
                 min_y == SetMin({Get(outs[n].position)[2] : n \in positioned_outputs})
                 delta == <<IF min_x < 0 THEN 0 - min_x ELSE 0,
                            IF min_y < 0 THEN 0 - min_y ELSE 0>>
             IN  IF delta = <<0, 0>> THEN outs
                 ELSE [n \in DOMAIN outs |->
                          IF n \in positioned_outputs
                          THEN [outs[n] EXCEPT !.position =
                                   Some(<<Get(@)[1] + delta[1], Get(@)[2] + delta[2]>>)]
                          ELSE [outs[n] EXCEPT !.position = Some(delta)]]

\* the whole-screen pass of TransitionForPosition.shove_to_fit
TransitionForPosition_normalize(outs) ==
    LET positioned_outputs == {n \in DOMAIN outs : outs[n].position # None}
    IN  IF positioned_outputs = {} THEN outs
        ELSE LET min_x == SetMin({Get(outs[n].position)[1] : n \in positioned_outputs})
                 min_y == SetMin({Get(outs[n].position)[2] : n \in positioned_outputs})
                 delta == NormalizeDelta(min_x, min_y)
             IN  IF delta = <<0, 0>> THEN outs
                 ELSE [n \in DOMAIN outs |->
                          IF n \in positioned_outputs
                          THEN TransitionOutputForPosition_shift(outs[n], delta)
                          ELSE outs[n]]

\* the whole-screen pass on what the loop over the outputs left in each
TransitionForPosition_shove_to_fit_after(each) ==
    IF each.exc # NoException
    THEN [exc |-> each.exc, repaired |-> each.outputs, outputs |-> each.outputs]
    ELSE [exc |-> NoException, repaired |-> each.outputs,
          outputs |-> TransitionForPosition_normalize(each.outputs)]

\* outputs, outputs after the per-output repairs, and exception after
\* transition.shove_to_fit()
TransitionForPosition_shove_to_fit(outs, srv) ==
    TransitionForPosition_shove_to_fit_after(BaseTransition_shove_to_fit(outs, srv, 1))

\* ------------------------------------------------------------------------
\* validate and serialize
\* ------------------------------------------------------------------------

\* BaseTransition.validate: the exception of the first output that raises
BaseTransition_validate(outs) ==
    LET order == Keys(DOMAIN outs)
        bad == {i \in 1..Len(order) :
                    TransitionOutputForMode_validate(outs[order[i]]) # NoException}
    IN  IF bad = {} THEN NoException
        ELSE TransitionOutputForMode_validate(outs[order[SetMin(bad)]])

\* each aspect's serialize gets what super().serialize() returned
TransitionOutputForMode_serialize(to, super) ==
    super
    \o (IF to.precise_mode # None
        THEN <<OPT_mode, FormatHex(Get(to.precise_mode))>> ELSE <<>>)
    \o (IF to.named_mode # None THEN <<OPT_mode, Get(to.named_mode)>> ELSE <<>>)
    \o (IF to.rate # None THEN <<OPT_rate, Rate_str(Get(to.rate))>> ELSE <<>>)
    \o (IF to.off THEN <<OPT_off>> ELSE <<>>)
    \o (IF to.auto THEN <<OPT_auto>> ELSE <<>>)

TransitionOutputForPosition_serialize(to, super) ==
    IF to.position # None
    THEN <<OPT_pos, Position_str(Get(to.position))>> \o super
    ELSE super

TransitionOutputForPrimary_serialize(name, pri, super) ==
    IF pri = PrimaryOutput(name) THEN <<OPT_primary>> \o super ELSE super

\* serialize of the assembled output class: primary, position, mode, base
TransitionOutput_serialize(name, to, pri) ==
    TransitionOutputForPrimary_serialize(name, pri,
        TransitionOutputForPosition_serialize(to,
            TransitionOutputForMode_serialize(to, <<>>)))

RECURSIVE SerializeOutputs(_, _, _)
\* the loop of BaseTransition.serialize over outputs.items()
SerializeOutputs(outs, pri, i) ==
    LET order == Keys(DOMAIN outs)
    IN  IF i > Len(order) THEN <<>>
        ELSE LET serialized_from_output ==
                     TransitionOutput_serialize(order[i], outs[order[i]], pri)
             IN  (IF serialized_from_output # <<>>
                  THEN <<OPT_output, order[i]>> \o serialized_from_output
                  ELSE <<>>)
                 \o SerializeOutputs(outs, pri, i + 1)

\* variant: serializes without validating
BaseTransition_serialize_unchecked(outs, pri) ==
    [exc |-> NoException, ret |-> Some(SerializeOutputs(outs, pri, 1))]

\* BaseTransition.serialize: validate, then the groups of all outputs
BaseTransition_serialize(outs, pri) ==
    IF BaseTransition_validate(outs) # NoException
    THEN [exc |-> BaseTransition_validate(outs), ret |-> None]
    ELSE [exc |-> NoException, ret |-> Some(SerializeOutputs(outs, pri, 1))]

\* variant: --noprimary after the output groups
TransitionForPrimary_serialize_trailing(outs, pri) ==
    LET super == BaseTransition_serialize(outs, pri)
    IN  IF super.exc # NoException THEN super
        ELSE IF pri = NO_PRIMARY
        THEN [exc |-> NoException, ret |-> Some(Get(super.ret) \o <<OPT_noprimary>>)]
        ELSE super

\* TransitionForPrimary.serialize: --noprimary in front of super's vector
TransitionForPrimary_serialize(outs, pri) ==
    LET super == BaseTransition_serialize(outs, pri)
    IN  IF super.exc # NoException THEN super
        ELSE IF pri = NO_PRIMARY
        THEN [exc |-> NoException, ret |-> Some(<<OPT_noprimary>> \o Get(super.ret))]
        ELSE super

\* ------------------------------------------------------------------------
\* commandline_parser.get_parser().parse_args
\* ------------------------------------------------------------------------

ROT_normal == <<"n", "o", "r", "m", "a", "l">>

ROT_left == <<"l", "e", "f", "t">>

RotateChoices == {ROT_normal, ROT_left}

\* argparse's _negative_number_matcher: -digits or -digits.digits
NegativeNumberLike(tok) ==
    /\ Len(tok) >= 2
    /\ tok[1] = "-"
    /\ LET parts == Split(SubSeq(tok, 2, Len(tok)), ".")
       IN  \/ Len(parts) = 1 /\ AllIn(parts[1], DecimalChars)
           \/ Len(parts) = 2 /\ Len(parts[2]) > 0
              /\ AllIn(parts[1], DecimalChars) /\ AllIn(parts[2], DecimalChars)

\* argparse takes the token for an option, not for an option's argument
OptionLike(tok) == Len(tok) >= 2 /\ tok[1] = "-" /\ ~NegativeNumberLike(tok)

HasArgument(argv, i) == i + 1 <= Len(argv) /\ ~OptionLike(argv[i + 1])

EmptyNamespace == [k \in {} |-> TRUE]

\* the options with action store_true of the per output group
FlagKey(tok) ==
    IF tok = OPT_auto THEN "auto" ELSE IF tok = OPT_off THEN "off"
    ELSE IF tok = OPT_primary THEN "primary" ELSE ""

\* the options with one argument of the per output group
ValueKey(tok) ==
    IF tok = OPT_mode THEN "mode" ELSE IF tok = OPT_pos THEN "pos"
    ELSE IF tok = OPT_rate THEN "rate" ELSE IF tok = OPT_rotate THEN "rotate"
    ELSE ""

\* type= and choices= of the option; None stands for a rejected argument
ConvertArgument(key, tok) ==
    IF key = "pos" THEN Position_new(tok)
    ELSE IF key = "rate" THEN ParseFloat(tok)
    ELSE IF key = "rotate" THEN (IF tok \in RotateChoices THEN Some(tok) ELSE None)
    ELSE Some(tok)

\* GroupingMixin.__call__: store the value in the namespace of the current group
GroupingMixin_call(ns, key, value) ==
    LET groups == IF ns.output_grouped = None THEN EmptyNamespace
                  ELSE Get(ns.output_grouped)
        current_group == Get(ns.output)
        current_namespace == IF current_group \in DOMAIN groups
                             THEN groups[current_group] ELSE EmptyNamespace
    IN  [ns EXCEPT !.output_grouped =
            Some((current_group :> ((key :> value) @@ current_namespace)) @@ groups)]

RECURSIVE ParseFrom(_, _, _)
ParseFrom(argv, i, ns) ==
    LET SystemExit == [exc |-> Exception("SystemExit", "usage"), ns |-> ns]
    IN  IF i > Len(argv) THEN [exc |-> NoException, ns |-> ns]
        ELSE IF argv[i] = OPT_noprimary
        THEN ParseFrom(argv, i + 1, [ns EXCEPT !.noprimary = TRUE])
        ELSE IF argv[i] = OPT_output
        THEN IF HasArgument(argv, i)
             THEN ParseFrom(argv, i + 2, [ns EXCEPT !.output = Some(argv[i + 1])])
             ELSE SystemExit
        ELSE IF FlagKey(argv[i]) # ""
        THEN IF ns.output # None
             THEN ParseFrom(argv, i + 1, GroupingMixin_call(ns, FlagKey(argv[i]), TRUE))
             ELSE SystemExit
        ELSE IF ValueKey(argv[i]) # ""
        THEN IF HasArgument(argv, i) /\ ns.output # None
                /\ ConvertArgument(ValueKey(argv[i]), argv[i + 1]) # None
             THEN ParseFrom(argv, i + 2,
                      GroupingMixin_call(ns, ValueKey(argv[i]),
                          Get(ConvertArgument(ValueKey(argv[i]), argv[i + 1]))))
             ELSE SystemExit
        ELSE SystemExit

parse_args(argv) ==
    ParseFrom(argv, 1, [noprimary |-> FALSE, output |-> None, output_grouped |-> None])

\* ------------------------------------------------------------------------
\* unserialize
\* ------------------------------------------------------------------------

\* del args.<key>
Without(args, key) == [k \in (DOMAIN args) \ {key} |-> args[k]]

\* The unserialize methods of an output work on st: the output's attributes
\* (out), transition.primary, the remaining args and the exception raised.
\* FileSyntaxError is not a name of base.py or mode.py: raising it is a
\* NameError.
TransitionOutputForPrimary_unserialize(name, st) ==
    IF "primary" \in DOMAIN st.args
    THEN [st EXCEPT !.primary = IF st.args["primary"] THEN PrimaryOutput(name) ELSE @,
                    !.args = Without(@, "primary")]
    ELSE st

TransitionOutputForPosition_unserialize(st) ==
    IF "pos" \in DOMAIN st.args
    THEN [st EXCEPT !.out.position = Some(st.args["pos"]),
                    !.args = Without(@, "pos")]
    ELSE st

\* the 'mode' branch of TransitionOutputForMode.unserialize
UnserializeMode(st, available_modes) ==
    LET mode == st.args["mode"]
        rest == SubSeq(mode, 3, Len(mode))
        hex == StartsWith(mode, <<"0", "x">>) /\ AllIn(rest, HexChars)
        ids == {available_modes[i].id : i \in 1..Len(available_modes)}
        names == {available_modes[i].name : i \in 1..Len(available_modes)}
    IN  IF hex /\ rest = <<>>
        THEN [st EXCEPT !.exc = Exception("ValueError", "int")]
        ELSE IF hex /\ StrToNat(rest, 16) \in ids
        THEN [st EXCEPT !.out.precise_mode = Some(StrToNat(rest, 16)),
                        !.args = Without(@, "mode")]
        ELSE IF mode \in names
        THEN [st EXCEPT !.out.named_mode = Some(mode), !.args = Without(@, "mode")]
        ELSE [st EXCEPT !.exc = Exception("NameError", "Unknown mode")]

\* the 'rate' branch
UnserializeRate(st) ==
    IF "rate" \in DOMAIN st.args
    THEN [st EXCEPT !.out.rate = Some(st.args["rate"]), !.args = Without(@, "rate")]
    ELSE st

\* the 'auto' branch
UnserializeAuto(st) ==
    IF "auto" \in DOMAIN st.args
    THEN [st EXCEPT !.out.auto = TRUE, !.args = Without(@, "auto")]
    ELSE st

\* the 'off' branch
UnserializeOff(st) ==
    IF "off" \in DOMAIN st.args
    THEN [st EXCEPT !.out.off = TRUE, !.args = Without(@, "off")]
    ELSE st

\* what follows the 'mode' branch, unless that branch raised
UnserializeAfterMode(st) ==
    IF st.exc # NoException THEN st
    ELSE UnserializeOff(UnserializeAuto(UnserializeRate(st)))

TransitionOutputForMode_unserialize(st, available_modes) ==
    UnserializeAfterMode(IF "mode" \in DOMAIN st.args
                         THEN UnserializeMode(st, available_modes)
                         ELSE st)

\* reached by super() unless an aspect raised before
BaseTransitionOutput_unserialize(st) ==
    IF st.exc # NoException THEN st
    ELSE IF DOMAIN st.args # {}
    THEN [st EXCEPT !.exc = Exception("NameError", "Unserialized arguments remain")]
    ELSE st

\* unserialize of the assembled output class: primary, position, mode, base
TransitionOutput_unserialize(name, st, available_modes) ==
    BaseTransitionOutput_unserialize(
        TransitionOutputForMode_unserialize(
            TransitionOutputForPosition_unserialize(
                TransitionOutputForPrimary_unserialize(name, st)),
            available_modes))

RECURSIVE UnserializeGroups(_, _, _, _, _)
\* the loop after unserialize() of the output output_name gave st
UnserializeGroups_next(outs, groups, srv, i, output_name, st) ==
    IF st.exc # NoException
    THEN [exc |-> st.exc, outputs |-> [outs EXCEPT ![output_name] = st.out],
          primary |-> st.primary]
    ELSE UnserializeGroups([outs EXCEPT ![output_name] = st.out], st.primary,
                           groups, srv, i + 1)

\* one pass of the loop, for the group of output_name
UnserializeGroups_output(outs, pri, groups, srv, i, output_name) ==
    IF output_name \notin DOMAIN outs
    THEN [exc |-> Exception("NameError", "unknown output"),
          outputs |-> outs, primary |-> pri]
    ELSE UnserializeGroups_next(outs, groups, srv, i, output_name,
             TransitionOutput_unserialize(output_name,
                 [out |-> outs[output_name], primary |-> pri,
                  args |-> groups[output_name], exc |-> NoException],
                 srv.outputs[output_name].assigned_modes))

\* the loop of BaseTransition.unserialize over args.output_grouped.items()
UnserializeGroups(outs, pri, groups, srv, i) ==
    IF i > Len(Keys(DOMAIN groups))
    THEN [exc |-> NoException, outputs |-> outs, primary |-> pri]
    ELSE UnserializeGroups_output(outs, pri, groups, srv, i, Keys(DOMAIN groups)[i])

BaseTransition_unserialize(outs, pri, ns, srv) ==
    IF ns.output_grouped # None
    THEN UnserializeGroups(outs, pri, Get(ns.output_grouped), srv, 1)
    ELSE [exc |-> NoException, outputs |-> outs, primary |-> pri]

TransitionForPrimary_unserialize(outs, pri, ns, srv) ==
    BaseTransition_unserialize(outs, IF ns.noprimary THEN NO_PRIMARY ELSE pri, ns, srv)

\* ------------------------------------------------------------------------
\* predict_server
\* ------------------------------------------------------------------------

\* The predict_server methods of an output work on pso, the object
\* predicted_server.outputs[name].  PredictedServer copies the attributes of
\* the server, so that object is server.outputs[name] itself.
\* the geometry assignment of TransitionOutputForMode.predict_server on the
\* output `on`, whose active flag is already set
TransitionOutputForMode_predict_geometry(on, configuredmode) ==
    IF configuredmode.kind = "None" THEN [exc |-> NoException, pso |-> on]
    ELSE IF on.geometry = None
    THEN [exc |-> Exception("AttributeError", "geometry"), pso |-> on]
    ELSE IF configuredmode.kind = "int"
    THEN [exc |-> Exception("AttributeError", "width"), pso |-> on]
    ELSE [exc |-> NoException,
          pso |-> [on EXCEPT !.geometry =
                      Some(Geometry(Geometry_left(Get(on.geometry)),
                                    Geometry_top(Get(on.geometry)),
                                    Get(configuredmode.mode).width,
                                    Get(configuredmode.mode).height))]]

\* TransitionOutputForMode.predict_server once get_configured_mode() is known
TransitionOutputForMode_predict_configured(to, pso, configuredmode) ==
    IF configuredmode.exc # ""
    THEN [exc |-> Exception(configuredmode.exc, "max"), pso |-> pso]
    ELSE TransitionOutputForMode_predict_geometry(
             [pso EXCEPT !.active =
                 IF to.auto \/ configuredmode.kind # "None" THEN TRUE
                 ELSE IF to.off THEN FALSE ELSE @],
             configuredmode)

TransitionOutputForMode_predict_server(to, pso) ==
    TransitionOutputForMode_predict_configured(
        to, pso, TransitionOutputForMode_get_configured_mode(to, pso))

\* TransitionOutputForPosition.predict_server after super's predict_server
TransitionOutputForPosition_predict_position(to, super) ==
    IF super.exc # NoException \/ to.position = None THEN super
    ELSE IF super.pso.geometry = None
    THEN [exc |-> Exception("AttributeError", "geometry"), pso |-> super.pso]
    ELSE [exc |-> NoException,
          pso |-> [super.pso EXCEPT !.geometry =
                      Some(Geometry(Get(to.position)[1],
                                    Get(to.position)[2],
                                    Geometry_width(Get(super.pso.geometry)),
                                    Geometry_height(Get(super.pso.geometry))))]]

TransitionOutputForPosition_predict_server(to, pso) ==
    TransitionOutputForPosition_predict_position(
        to, TransitionOutputForMode_predict_server(to, pso))

RECURSIVE BaseTransition_predict_server(_, _, _)
\* the loop after predict_server() of the i-th output gave r
BaseTransition_predict_server_next(outs, srv, i, r) ==
    IF r.exc # NoException
    THEN [exc |-> r.exc,
          server |-> [srv EXCEPT !.outputs[Keys(DOMAIN outs)[i]] = r.pso]]
    ELSE BaseTransition_predict_server(
             outs, [srv EXCEPT !.outputs[Keys(DOMAIN outs)[i]] = r.pso], i + 1)

\* the loop over outputs.values(), from the i-th output on
BaseTransition_predict_server(outs, srv, i) ==
    IF i > Len(Keys(DOMAIN outs)) THEN [exc |-> NoException, server |-> srv]
    ELSE BaseTransition_predict_server_next(outs, srv, i,
             TransitionOutputForPosition_predict_server(
                 outs[Keys(DOMAIN outs)[i]], srv.outputs[Keys(DOMAIN outs)[i]]))

\* ------------------------------------------------------------------------
\* Operations on the transition
\* ------------------------------------------------------------------------

\* output.validate()
OutputValidate ==
    \E name \in DOMAIN outputs :
        /\ Outcome("output.validate", Some(name),
                   TransitionOutputForMode_validate(outputs[name]), None)
        /\ repaired' = None
        /\ loaded' = None
        /\ UNCHANGED <<server, outputs, primary, predictions>>

\* variant: a validate() that switches the rejected outputs back on
Validate_repairing ==
    /\ predictions = 0
    /\ Outcome("validate", None, BaseTransition_validate(outputs), None)
    /\ outputs' = [name \in DOMAIN outputs |->
                      IF TransitionOutputForMode_validate(outputs[name]) # NoException
                      THEN [outputs[name] EXCEPT !.off = FALSE]
                      ELSE outputs[name]]
    /\ repaired' = None
    /\ loaded' = None
    /\ UNCHANGED <<server, primary, predictions>>

\* transition.validate()
Validate ==
    /\ predictions = 0
    /\ Outcome("validate", None, BaseTransition_validate(outputs), None)
    /\ repaired' = None
    /\ loaded' = None
    /\ UNCHANGED <<server, outputs, primary, predictions>>

\* transition.serialize()
Serialize ==
    \E r \in {TransitionForPrimary_serialize(outputs, primary)} :
        /\ predictions = 0
        /\ Outcome("serialize", None, r.exc, r.ret)
        /\ repaired' = None
        /\ loaded' = None
        /\ UNCHANGED <<server, outputs, primary, predictions>>

\* output.set_any_mode()
SetAnyMode ==
    \E name \in DOMAIN outputs :
        \E r \in {TransitionOutputForMode_set_any_mode(outputs[name],
                                                        server.outputs[name])} :
            /\ outputs' = [outputs EXCEPT ![name] = r.out]
            /\ WithinBounds(outputs', primary, predictions)
            /\ Outcome("set_any_mode", Some(name), r.exc, None)
            /\ repaired' = None
            /\ loaded' = None
            /\ UNCHANGED <<server, primary, predictions>>

\* output.set_any_position()
SetAnyPosition ==
    \E name \in DOMAIN outputs :
        \E r \in {TransitionOutputForPosition_set_any_position(outputs[name],
                                                                server.outputs[name])} :
            /\ outputs' = [outputs EXCEPT ![name] = r.out]
            /\ WithinBounds(outputs', primary, predictions)
            /\ Outcome("set_any_position", Some(name), r.exc, None)
            /\ repaired' = None
            /\ loaded' = None
            /\ UNCHANGED <<server, primary, predictions>>

\* transition.shove_to_fit()
ShoveToFit ==
    \E r \in {TransitionForPosition_shove_to_fit(outputs, server)} :
        /\ predictions = 0
        /\ outputs' = r.outputs
        /\ Outcome("shove_to_fit", None, r.exc, None)
        /\ repaired' = Some(r.repaired)
        /\ loaded' = None
        /\ UNCHANGED <<server, primary, predictions>>

\* transition.predict_server()
PredictServer ==
    \E r \in {BaseTransition_predict_server(outputs, server, 1)} :
        /\ predictions < MaxPredictions
        /\ server' = r.server
        /\ predictions' = predictions + 1
        /\ Outcome("predict_server", None, r.exc, None)
        /\ repaired' = None
        /\ loaded' = None
        /\ UNCHANGED <<outputs, primary>>

POS_2x0 == <<"2", "x", "0">>

\* command lines that are read into the transition
ArgVectors ==
    { <<OPT_output, HDMI1, OPT_mode, Name_3x1, OPT_pos, POS_2x0>>,
      <<OPT_noprimary, OPT_output, LVDS1, OPT_off, OPT_auto>>,
      <<OPT_output, DP1, OPT_off>>,
      <<OPT_output, LVDS1, OPT_rotate, ROT_left>> }

\* get_parser().parse_args(argv) of each of them
ParsedArgVectors == {parse_args(argv) : argv \in ArgVectors}

\* transition.unserialize(get_parser().parse_args(argv))
Unserialize ==
    \E parsed \in ParsedArgVectors :
        /\ predictions = 0
        /\ IF parsed.exc # NoException
           THEN /\ Outcome("unserialize", None, parsed.exc, None)
                /\ UNCHANGED <<outputs, primary>>
           ELSE \E r \in {TransitionForPrimary_unserialize(outputs, primary,
                                                          parsed.ns, server)} :
                    /\ Outcome("unserialize", None, r.exc, None)
                    /\ outputs' = r.outputs
                    /\ primary' = r.primary
        /\ repaired' = None
        /\ loaded' = None
        /\ UNCHANGED <<server, predictions>>

\* Transition(server).unserialize(get_parser().parse_args(serialized)), where
\* serialized is what transition.serialize() has just returned
Reload ==
    /\ lastOp = "serialize"
    /\ returned # None
    /\ \E parsed \in {parse_args(Get(returned))},
          fresh \in {BaseTransition_initialize_empty(server)} :
          IF parsed.exc # NoException
          THEN /\ Outcome("reload", None, parsed.exc, returned)
               /\ loaded' = Some([outputs |-> fresh, primary |-> PrimaryUnset])
          ELSE \E r \in {TransitionForPrimary_unserialize(fresh, PrimaryUnset,
                                                         parsed.ns, server)} :
                   /\ Outcome("reload", None, r.exc, returned)
                   /\ loaded' = Some([outputs |-> r.outputs, primary |-> r.primary])
    /\ repaired' = None
    /\ UNCHANGED <<server, outputs, primary, predictions>>

Next ==
    \/ SetNamedMode
    \/ SetPreciseMode
    \/ SetRate
    \/ SetAuto
    \/ SetOff
    \/ SetPosition
    \/ SetPrimary
    \/ Validate
    \/ Serialize
    \/ SetAnyMode
    \/ SetAnyPosition
    \/ ShoveToFit
    \/ PredictServer
    \/ Unserialize
    \/ Reload

Spec == Init /\ [][Next]_vars

\* ------------------------------------------------------------------------
\* validate() of one output on every combination of mode attributes
\* ------------------------------------------------------------------------

\* the mode attributes an output can be given, one value per attribute
ModeAttributeStates ==
    [named_mode : {None, Some(Name_2x2)}, precise_mode : {None, Some(75)},
     rate : {None, Some(600)}, auto : BOOLEAN, off : BOOLEAN, position : {None}]

InitValidate ==
    /\ server = ParsedServer
    /\ \E to \in ModeAttributeStates, name \in DOMAIN server.outputs :
          outputs = [BaseTransition_initialize_empty(server) EXCEPT ![name] = to]
    /\ primary = PrimaryUnset
    /\ predictions = 0
    /\ lastOp = "__init__"
    /\ lastOutput = None
    /\ raised = NoException
    /\ returned = None
    /\ repaired = None
    /\ loaded = None
    /\ callArgs = None
    /\ result = None
    /\ contexts = None

NextValidate == OutputValidate

SpecValidate == InitValidate /\ [][NextValidate]_vars

\* ------------------------------------------------------------------------
\* Properties
\* ------------------------------------------------------------------------

\* how many of named_mode, precise_mode, auto and off are engaged
Engaged(to) ==
    Cardinality({i \in 1..4 : <<to.named_mode # None, to.precise_mode # None,
                                to.auto, to.off>>[i]})

\* C1: on an output whose rate is unset, validate() raises
\* InadequateConfiguration exactly when at least two of named_mode,
\* precise_mode, auto and off are engaged; none or one alone is accepted.
MutualExclusion ==
    lastOp = "output.validate" =>
        LET to == outputs[Get(lastOutput)]
        IN  to.rate = None =>
                /\ raised.type = "InadequateConfiguration" <=> Engaged(to) >= 2
                /\ raised = NoException <=> Engaged(to) <= 1

MutualExclusion_witness ==
    /\ lastOp = "output.validate"
    /\ outputs[Get(lastOutput)].rate = None
    /\ outputs[Get(lastOutput)].auto
    /\ outputs[Get(lastOutput)].off
    /\ Engaged(outputs[Get(lastOutput)]) = 2
    /\ raised.type = "InadequateConfiguration"

\* the mode shove_to_fit assumes for an output: the configured one, else
\* the server's current one (None if there is neither)
AssumedMode(to, so) ==
    LET configured == TransitionOutputForMode_get_configured_mode(to, so)
    IN  IF configured.exc = "" /\ configured.kind = "mode" THEN configured.mode
        ELSE IF configured.exc = "" /\ configured.kind = "None" THEN Output_mode(so).mode
        ELSE None

\* a positioned output with a negative coordinate or reaching beyond
\* server.virtual.max
OutsideVirtual(to, so, virtualsize) ==
    /\ to.position # None
    /\ \/ Get(to.position)[1] < 0
       \/ Get(to.position)[2] < 0
       \/ /\ AssumedMode(to, so) # None
          /\ \/ Get(to.position)[1] + Get(AssumedMode(to, so)).width > virtualsize[1]
             \/ Get(to.position)[2] + Get(AssumedMode(to, so)).height > virtualsize[2]

\* the assumed mode of the output is not larger than server.virtual.max
ModeFits(to, so, virtualsize) ==
    /\ AssumedMode(to, so) # None
    /\ Get(AssumedMode(to, so)).width <= virtualsize[1]
    /\ Get(AssumedMode(to, so)).height <= virtualsize[2]

\* C2: transition.validate() raises InadequateConfiguration whenever some
\* output has an explicit position with a negative coordinate or with
\* position + mode size beyond server.virtual.max.
ValidateChecksBounds ==
    (/\ lastOp = "validate"
     /\ \E name \in DOMAIN outputs :
            OutsideVirtual(outputs[name], server.outputs[name], server.virtual.max))
    => raised.type = "InadequateConfiguration"

\* C3: after transition.shove_to_fit() has returned, every positioned output
\* whose assumed mode fits within server.virtual.max lies inside the virtual
\* screen on both axes.
ShoveToFitBringsInside ==
    (lastOp = "shove_to_fit" /\ raised = NoException) =>
        \A name \in DOMAIN outputs :
            (/\ outputs[name].position # None
             /\ ModeFits(outputs[name], server.outputs[name], server.virtual.max))
            => ~OutsideVirtual(outputs[name], server.outputs[name], server.virtual.max)

\* every requested mode of the output is one of its assigned modes
ModesAssigned(to, so) ==
    /\ to.named_mode # None =>
          \E i \in 1..Len(so.assigned_modes) : so.assigned_modes[i].name = Get(to.named_mode)
    /\ to.precise_mode # None =>
          \E i \in 1..Len(so.assigned_modes) : so.assigned_modes[i].id = Get(to.precise_mode)

\* C4: unserializing the parsed arguments of serialize() into a fresh
\* Transition on the same server gives every output the same named_mode,
\* precise_mode, rate, auto, off and position, and the same primary, provided
\* the requested modes are assigned modes of their outputs.
RoundTrip ==
    (/\ lastOp = "reload"
     /\ \A name \in DOMAIN outputs : ModesAssigned(outputs[name], server.outputs[name]))
    => /\ raised = NoException
       /\ loaded = Some([outputs |-> outputs, primary |-> primary])

\* C5: validate() changes neither the transition nor the server, and a
\* second call right after the first has the same outcome.
ValidateIsPure ==
    [][lastOp' = "validate" =>
          /\ outputs' = outputs
          /\ primary' = primary
          /\ server' = server
          /\ predictions' = predictions
          /\ lastOp = "validate" => raised' = raised]_vars

ValidateIsPure_witness ==
    /\ lastOp = "validate"
    /\ raised.type = "InadequateConfiguration"
    /\ \E name \in DOMAIN outputs : outputs[name].off /\ outputs[name].auto

\* C6: on a transition that validate() rejects, serialize() raises that
\* error and returns no argument vector, not even --noprimary.
SerializeValidatesFirst ==
    (lastOp = "serialize" /\ BaseTransition_validate(outputs) # NoException) =>
        /\ raised = BaseTransition_validate(outputs)
        /\ returned = None

SerializeValidatesFirst_witness ==
    /\ lastOp = "serialize"
    /\ primary = NO_PRIMARY
    /\ raised.type = "InadequateConfiguration"
    /\ returned = None

\* C7: shove_to_fit() leaves the position of every output unset that was
\* unset before the call.
ShoveKeepsUnpositioned ==
    [][lastOp' = "shove_to_fit" =>
          \A name \in DOMAIN outputs :
              outputs[name].position = None =>
                  /\ name \in DOMAIN outputs'
                  /\ outputs'[name].position = None]_vars

\* an output without position next to one that the whole-screen pass moved
ShoveKeepsUnpositioned_witness ==
    /\ lastOp = "shove_to_fit"
    /\ raised = NoException
    /\ \E moved, unset \in DOMAIN outputs :
          /\ outputs[unset].position = None
          /\ Get(repaired)[unset].position = None
          /\ outputs[moved].position # None
          /\ outputs[moved].position # Get(repaired)[moved].position

\* C8: with the positions after the per-output repairs in `repaired`: on an
\* axis where the smallest coordinate of the positioned outputs is negative,
\* all of them are translated by the same amount and the smallest coordinate
\* becomes 0; on an axis where it is not negative, none is translated.
WholeScreenNormalization ==
    (lastOp = "shove_to_fit" /\ raised = NoException) =>
        LET before == Get(repaired)
            positioned == {n \in DOMAIN before : before[n].position # None}
        IN  \A axis \in {1, 2} :
                positioned # {} =>
                    LET least == SetMin({Get(before[n].position)[axis] : n \in positioned})
                    IN  IF least < 0
                        THEN /\ \A n \in positioned :
                                    Get(outputs[n].position)[axis]
                                        = Get(before[n].position)[axis] - least
                             /\ SetMin({Get(outputs[n].position)[axis] : n \in positioned}) = 0
                        ELSE \A n \in positioned :
                                    Get(outputs[n].position)[axis]
                                        = Get(before[n].position)[axis]

\* two positioned outputs, translated on the x axis and not on the y axis
WholeScreenNormalization_witness ==
    /\ lastOp = "shove_to_fit"
    /\ raised = NoException
    /\ \A n \in DOMAIN outputs : outputs[n].position # None
    /\ \E n \in DOMAIN outputs : Get(Get(repaired)[n].position)[1] < 0
    /\ \A n \in DOMAIN outputs : Get(Get(repaired)[n].position)[2] >= 0
    /\ \A n \in DOMAIN outputs :
          Get(outputs[n].position)[2] = Get(Get(repaired)[n].position)[2]

\* C9: the output names of the transition, and of a transition loaded from
\* its serialization, are the output names of the bound server.
OutputNamesMatchServer ==
    /\ DOMAIN outputs = DOMAIN server.outputs
    /\ loaded # None => DOMAIN Get(loaded).outputs = DOMAIN server.outputs

\* a command line naming an output the server does not have was rejected
OutputNamesMatchServer_witness ==
    /\ lastOp = "unserialize"
    /\ raised.msg = "unknown output"
    /\ DP1 \notin DOMAIN outputs

\* the name after the last --output before position i of the vector
GroupAt(vector, i) ==
    LET selectors == {j \in 1..(i - 1) : vector[j] = OPT_output}
    IN  IF selectors = {} THEN None
        ELSE Some(vector[(CHOOSE j \in selectors : \A k \in selectors : k <= j) + 1])

\* C10: in the vector serialize() returns, --noprimary appears (once, first,
\* before any --output) exactly if primary is NO_PRIMARY; --primary appears
\* in the group of an output exactly if primary is that output, and at most
\* once; the two never appear together.
PrimaryFlags ==
    (lastOp = "serialize" /\ returned # None) =>
        LET vector == Get(returned)
            noprimary == {i \in 1..Len(vector) : vector[i] = OPT_noprimary}
            primaries == {i \in 1..Len(vector) : vector[i] = OPT_primary}
        IN  /\ primary = NO_PRIMARY <=> noprimary # {}
            /\ noprimary \subseteq {1}
            /\ \A name \in DOMAIN outputs :
                   primary = PrimaryOutput(name)
                       <=> \E i \in primaries : GroupAt(vector, i) = Some(name)
            /\ Cardinality(primaries) <= 1
            /\ \A i \in primaries : GroupAt(vector, i) # None
            /\ noprimary = {} \/ primaries = {}

\* --noprimary in front of an --output group
PrimaryFlags_witness ==
    /\ lastOp = "serialize"
    /\ returned # None
    /\ primary = NO_PRIMARY
    /\ Len(Get(returned)) > 1
    /\ Get(returned)[1] = OPT_noprimary
    /\ Get(returned)[2] = OPT_output

\* C11: when unserialize() finds a field left in an output's argument group
\* after all aspects have consumed theirs (the raise of
\* BaseTransitionOutput.unserialize is reached), the error it raises is a
\* FileSyntaxError.
LeftoverIsFileSyntaxError ==
    (lastOp = "unserialize" /\ raised.msg = "Unserialized arguments remain")
    => raised.type = "FileSyntaxError"

\* the pair (is_preferred, width * height) of mode a is not below that of b
KeyAtLeast(a, b) ==
    \/ a.is_preferred /\ ~b.is_preferred
    \/ a.is_preferred = b.is_preferred /\ a.width * a.height >= b.width * b.height

\* the names set_any_mode() may choose for the server output so
AnyModeNames(so) ==
    IF so.active
    THEN {so.assigned_modes[i].name : i \in {j \in 1..Len(so.assigned_modes) :
                Some(so.assigned_modes[j].id) = so.mode_number}}
    ELSE {so.assigned_modes[i].name : i \in {j \in 1..Len(so.assigned_modes) :
                \A k \in 1..Len(so.assigned_modes) :
                    KeyAtLeast(so.assigned_modes[j], so.assigned_modes[k])}}

\* C12: set_any_mode() on an output that requests no mode sets named_mode to
\* the name of the current mode of an active output, else to the name of the
\* assigned mode with the largest (is_preferred, width * height), with off and
\* auto False and nothing else changed; on an output that requests a mode it
\* changes nothing.
SetAnyModeChoice ==
    [][lastOp' = "set_any_mode" =>
          LET name == Get(lastOutput')
              to == outputs[name]
          IN  /\ \A other \in (DOMAIN outputs) \ {name} : outputs'[other] = outputs[other]
              /\ primary' = primary
              /\ IF to.named_mode = None /\ to.precise_mode = None
                 THEN /\ raised' = NoException
                      /\ outputs'[name].named_mode # None
                      /\ Get(outputs'[name].named_mode) \in AnyModeNames(server.outputs[name])
                      /\ outputs'[name] = [to EXCEPT !.named_mode = outputs'[name].named_mode,
                                                     !.off = FALSE, !.auto = FALSE]
                 ELSE outputs'[name] = to]_vars

\* the inactive output got its preferred mode, not its largest one
SetAnyModeChoice_witness ==
    /\ lastOp = "set_any_mode"
    /\ lastOutput = Some(HDMI1)
    /\ ~server.outputs[HDMI1].active
    /\ outputs[HDMI1].named_mode = Some(Name_1x1)
    /\ ~outputs[HDMI1].off
    /\ ~outputs[HDMI1].auto

\* C13: after the first predict_server() has returned, for every output that
\* was active when parsed: the predicted width and height are those of the
\* configured named mode, else those parsed; the predicted left and top are
\* those of the explicit position, else those parsed.
PredictedGeometry ==
    (lastOp = "predict_server" /\ predictions = 1 /\ raised = NoException) =>
        \A name \in DOMAIN outputs :
            ParsedServer.outputs[name].active =>
                LET to == outputs[name]
                    parsed == Get(ParsedServer.outputs[name].geometry)
                    configured == TransitionOutputForMode_get_configured_mode(
                                      to, ParsedServer.outputs[name])
                    predicted == server.outputs[name].geometry
                IN  /\ predicted # None
                    /\ IF configured.kind = "mode"
                       THEN /\ Geometry_width(Get(predicted)) = Get(configured.mode).width
                            /\ Geometry_height(Get(predicted)) = Get(configured.mode).height
                       ELSE /\ Geometry_width(Get(predicted)) = Geometry_width(parsed)
                            /\ Geometry_height(Get(predicted)) = Geometry_height(parsed)
                    /\ IF to.position # None
                       THEN /\ Geometry_left(Get(predicted)) = Get(to.position)[1]
                            /\ Geometry_top(Get(predicted)) = Get(to.position)[2]
                       ELSE /\ Geometry_left(Get(predicted)) = Geometry_left(parsed)
                            /\ Geometry_top(Get(predicted)) = Geometry_top(parsed)

\* C14: every output of transition.server keeps the active flag and the
\* geometry it had right after parsing, whatever was predicted.
ServerSnapshotUnchanged ==
    \A name \in DOMAIN server.outputs :
        /\ server.outputs[name].active = ParsedServer.outputs[name].active
        /\ server.outputs[name].geometry = ParsedServer.outputs[name].geometry

\* ------------------------------------------------------------------------
\* The Server parser (xrandr/server.py): calls on bounded sets of arguments
\* ------------------------------------------------------------------------

\* the transition side of the state while a parser or polygon call is studied
InitCall(arguments) ==
    /\ server = ParsedServer
    /\ outputs = BaseTransition_initialize_empty(server)
    /\ primary = PrimaryUnset
    /\ predictions = 0
    /\ lastOp = "__init__"
    /\ lastOutput = None
    /\ raised = NoException
    /\ returned = None
    /\ repaired = None
    /\ loaded = None
    /\ callArgs \in arguments
    /\ result = None
    /\ contexts = None

\* the call under study: it runs once on the arguments drawn
Call(op, exc, res) ==
    /\ lastOp = "__init__"
    /\ lastOp' = op
    /\ raised' = exc
    /\ result' = res
    /\ UNCHANGED <<server, outputs, primary, predictions, lastOutput,
                   returned, repaired, loaded, callArgs, contexts>>

RECURSIVE Join(_)
\* " ".join(words)
Join(words) ==
    IF Len(words) = 0 THEN <<>>
    ELSE IF Len(words) = 1 THEN words[1]
    ELSE words[1] \o <<" ">> \o Join(Tail(words))

W_Screen == <<"S", "c", "r", "e", "e", "n">>

W_minimum == <<"m", "i", "n", "i", "m", "u", "m">>

W_current == <<"c", "u", "r", "r", "e", "n", "t">>

W_maximum == <<"m", "a", "x", "i", "m", "u", "m">>

W_x == <<"x">>

\* ssplit_expect of _load_parse_screenline
ssplit_expect ==
    <<Some(W_Screen), None, Some(W_minimum), None, Some(W_x), None,
      Some(W_current), None, Some(W_x), None, Some(W_maximum), None,
      Some(W_x), None>>

\* int(ssplit[k]) or int(ssplit[k][:-1]), k counted from 0: the integer, or
\* the exception the subscript or int() raises
ScreenlineInt(ssplit, k, cut) ==
    IF Len(ssplit) < k + 1
    THEN [raised |-> Exception("IndexError", <<"list index out of range">>),
          value |-> 0]
    ELSE LET word == IF cut = 0 THEN ssplit[k + 1]
                     ELSE SubSeq(ssplit[k + 1], 1, Len(ssplit[k + 1]) - 1)
         IN  IF ParseInt(word) = None
             THEN [raised |-> Exception("ValueError", <<"invalid literal for int()", word>>),
                   value |-> 0]
             ELSE [raised |-> NoException, value |-> Get(ParseInt(word))]

\* Server.Virtual(min=..., current=..., max=...) of the six integers, which
\* are evaluated from left to right
Server_Virtual(ints) ==
    IF \E i \in 1..6 : ints[i].raised # NoException
    THEN [raised |-> ints[CHOOSE i \in 1..6 :
                            /\ ints[i].raised # NoException
                            /\ \A j \in 1..(i - 1) : ints[j].raised = NoException].raised,
          virtual |-> None]
    ELSE [raised |-> NoException,
          virtual |-> Some([min |-> <<ints[1].value, ints[2].value>>,
                            current |-> <<ints[3].value, ints[4].value>>,
                            max |-> <<ints[5].value, ints[6].value>>])]

\* Server._load_parse_screenline, ssplit being screenline.split(" "): zip()
\* stops at the shorter of ssplit and ssplit_expect
Server_load_parse_screenline(screenline, ssplit) ==
    IF \E i \in 1..Len(ssplit_expect) :
          i <= Len(ssplit) /\ ssplit_expect[i] # None /\ ssplit[i] # Get(ssplit_expect[i])
    THEN [raised |-> Exception("XRandRParseError", <<"Unexpected screen line", screenline>>),
          virtual |-> None]
    ELSE Server_Virtual(<<ScreenlineInt(ssplit, 3, 0), ScreenlineInt(ssplit, 5, 1),
                          ScreenlineInt(ssplit, 7, 0), ScreenlineInt(ssplit, 9, 1),
                          ScreenlineInt(ssplit, 11, 0), ScreenlineInt(ssplit, 13, 0)>>)

\* the words of the screen line xrandr prints for the given sizes
ScreenWords(min, current, max) ==
    <<W_Screen, <<"0", ":">>,
      W_minimum, FormatInt(min[1]), W_x, FormatInt(min[2]) \o <<",">>,
      W_current, FormatInt(current[1]), W_x, FormatInt(current[2]) \o <<",">>,
      W_maximum, FormatInt(max[1]), W_x, FormatInt(max[2])>>

\* the screen lines xrandr prints
GoodScreenWords ==
    {ScreenWords(<<1, 1>>, current, <<VirtualMaxWidth, VirtualMaxHeight>>) :
        current \in {<<2, 2>>, <<VirtualMaxWidth, VirtualMaxHeight>>}}

\* words that take the place of a word of the line
StrayWords == {<<"a">>, <<>>, W_Screen, <<"7">>}

\* first lines handed to the parser: the lines xrandr prints, their prefixes,
\* the lines with one word replaced and the lines with a word appended
ScreenLines ==
    {Join(SubSeq(words, 1, k)) : words \in GoodScreenWords, k \in 0..14}
    \cup {Join([words EXCEPT ![i] = stray]) :
            words \in GoodScreenWords, i \in 1..14, stray \in StrayWords}
    \cup {Join(Append(words, stray)) : words \in GoodScreenWords, stray \in StrayWords}

InitScreenline == InitCall(ScreenLines)

ParseScreenline ==
    \E r \in {Server_load_parse_screenline(callArgs, Split(callArgs, " "))} :
        Call("_load_parse_screenline", r.raised, r.virtual)

NextScreenline == ParseScreenline

SpecScreenline == InitScreenline /\ [][NextScreenline]_vars

\* the line follows the skeleton
\* Screen <n>: minimum <w> x <h>, current <w> x <h>, maximum <w> x <h>
MatchesSkeleton(ssplit) ==
    /\ Len(ssplit) = 14
    /\ \A i \in 1..14 : ssplit_expect[i] # None => ssplit[i] = Get(ssplit_expect[i])
    /\ \A i \in {4, 8, 12, 14} : ParseInt(ssplit[i]) # None
    /\ \A i \in {6, 10} :
          /\ Len(ssplit[i]) > 1
          /\ ssplit[i][Len(ssplit[i])] = ","
          /\ ParseInt(SubSeq(ssplit[i], 1, Len(ssplit[i]) - 1)) # None

\* C18: the parse of a first line that does not follow the skeleton raises
\* XRandRParseError carrying the line, and no other exception; a line that
\* follows it is parsed.
ScreenlineFailsCleanly ==
    lastOp = "_load_parse_screenline" =>
        IF MatchesSkeleton(Split(callArgs, " "))
        THEN raised = NoException /\ result # None
        ELSE /\ raised.type = "XRandRParseError"
             /\ raised.msg = <<"Unexpected screen line", callArgs>>
             /\ result = None

\* ------------------------------------------------------------------------
\* Server.Output._parse_headline (xrandr/server.py)
\*
\* HEADLINE_EXPRESSION is matched word by word: the headline is split at its
\* blanks, and an output name is one word.
\* ------------------------------------------------------------------------

W_connected == <<"c", "o", "n", "n", "e", "c", "t", "e", "d">>

W_disconnected == <<"d", "i", "s", "c", "o", "n", "n", "e", "c", "t", "e", "d">>

W_unknown == <<"u", "n", "k", "n", "o", "w", "n">>

W_connection == <<"c", "o", "n", "n", "e", "c", "t", "i", "o", "n">>

W_primary == <<"p", "r", "i", "m", "a", "r", "y">>

W_normal == <<"n", "o", "r", "m", "a", "l">>

W_left == <<"l", "e", "f", "t">>

W_inverted == <<"i", "n", "v", "e", "r", "t", "e", "d">>

W_right == <<"r", "i", "g", "h", "t">>

W_none == <<"n", "o", "n", "e">>

W_and == <<"a", "n", "d">>

W_axis == <<"a", "x", "i", "s">>

W_noaxis == <<"n", "o", "a", "x", "i", "s">>

W_xaxis == <<"x", "a", "x", "i", "s">>

W_yaxis == <<"y", "a", "x", "i", "s">>

W_xyaxis == <<"x", "y", "a", "x", "i", "s">>

IsIn(seq, w) == \E i \in 1..Len(seq) : seq[i] = w

\* Rotation.values
Rotation_values == <<W_normal, W_left, W_inverted, W_right>>

\* Reflection.values
Reflection_values == <<W_xaxis, W_yaxis, W_xyaxis, W_noaxis>>

\* Reflection(label) for the labels of the parser: a value, or the value its
\* alias names; the label None is an alias of noaxis
Reflection(label) ==
    IF label = None THEN W_noaxis
    ELSE IF IsIn(Reflection_values, Get(label)) THEN Get(label)
    ELSE IF Get(label) = Join(<<<<"X">>, W_axis>>) THEN W_xaxis
    ELSE IF Get(label) = Join(<<<<"Y">>, W_axis>>) THEN W_yaxis
    ELSE IF Get(label) = Join(<<<<"X">>, W_and, <<"Y">>, W_axis>>) THEN W_xyaxis
    ELSE W_noaxis

\* ConnectionStatus(label): a Flag of connected, disconnected and
\* unknown connection
ConnectionStatus(label) == label

\* Geometry("<width>x<height>+<left>+<top>"): None stands for ValueError
Geometry_new(s) ==
    LET parts == Split(s, "x")
        rest == Split(parts[2], "+")
    IN  IF Len(parts) # 2 THEN None
        ELSE IF Len(rest) # 3 THEN None
        ELSE IF \E v \in {parts[1], rest[1], rest[2], rest[3]} : ParseInt(v) = None
        THEN None
        ELSE Some(Geometry(Get(ParseInt(parts[1])), Get(ParseInt(rest[1])),
                           Get(ParseInt(rest[2])), Get(ParseInt(rest[3]))))

\* the word is (0x<hexadecimal digits>)
IsModeIdWord(w) ==
    /\ Len(w) >= 5
    /\ SubSeq(w, 1, 3) = <<"(", "0", "x">>
    /\ w[Len(w)] = ")"
    /\ AllIn(SubSeq(w, 4, Len(w) - 1), HexChars)

\* int(<hexadecimal digits>, 16) of such a word
ModeIdOfWord(w) == StrToNat(SubSeq(w, 4, Len(w) - 1), 16)

\* number of words the current_reflection group takes at word q
ReflectionWords(words, q) ==
    IF q <= Len(words) /\ words[q] = W_none THEN 1
    ELSE IF q + 1 <= Len(words) /\ words[q] \in {<<"X">>, <<"Y">>} /\ words[q + 1] = W_axis
    THEN 2
    ELSE IF q + 3 <= Len(words)
            /\ SubSeq(words, q, q + 3) = <<<<"X">>, W_and, <<"Y">>, W_axis>>
    THEN 4
    ELSE 0

\* the optional group of current geometry, mode, rotation and reflection at
\* word p, the rotation at word q being followed by k words of reflection
HeadlineCurrentAt(words, p, q, k) ==
    IF /\ p <= Len(words) /\ Len(words[p]) > 0
       /\ AllIn(words[p], DecimalChars \cup {"-", "+", "x"})
       /\ q <= Len(words) /\ IsIn(Rotation_values, words[q])
    THEN [current_geometry |-> Some(words[p]),
          current_mode |-> IF q = p + 2 THEN Some(ModeIdOfWord(words[p + 1])) ELSE None,
          current_rotation |-> Some(words[q]),
          current_reflection |->
              IF k = 0 THEN None ELSE Some(Join(SubSeq(words, q + 1, q + k))),
          next |-> q + 1 + k]
    ELSE [current_geometry |-> None, current_mode |-> None,
          current_rotation |-> None, current_reflection |-> None, next |-> p]

HeadlineCurrent(words, p) ==
    IF p + 1 <= Len(words) /\ IsModeIdWord(words[p + 1])
    THEN HeadlineCurrentAt(words, p, p + 2, ReflectionWords(words, p + 3))
    ELSE HeadlineCurrentAt(words, p, p + 1, ReflectionWords(words, p + 2))

\* the words between the parentheses: rotations, then "x axis" and "y axis"
IsSupportedList(inner) ==
    \E r \in 0..Len(inner) :
        /\ \A i \in 1..r : IsIn(Rotation_values, inner[i])
        /\ (Len(inner) - r) % 2 = 0
        /\ \A i \in (r + 1)..Len(inner) :
              IF (i - r) % 2 = 1 THEN inner[i] \in {<<"x">>, <<"y">>}
              ELSE inner[i] = W_axis

\* the word is <decimal digits>mm
IsMillimetreWord(w) ==
    /\ Len(w) >= 3
    /\ SubSeq(w, Len(w) - 1, Len(w)) = <<"m", "m">>
    /\ AllIn(SubSeq(w, 1, Len(w) - 2), DecimalChars)

\* the rest of the headline from word p, the parentheses closing in word e:
\* the supported rotations and reflections and the optional physical size
HeadlineSupportedAt(words, p, e, inner) ==
    IF /\ IsSupportedList(IF inner = <<>> THEN <<>> ELSE Split(inner, " "))
       /\ \/ Len(words) = e
          \/ /\ Len(words) = e + 3
             /\ IsMillimetreWord(words[e + 1]) /\ words[e + 2] = W_x
             /\ IsMillimetreWord(words[e + 3])
    THEN [matched |-> TRUE,
          supported_rotations |->
              SelectSeq(IF inner = <<>> THEN <<>> ELSE Split(inner, " "),
                        LAMBDA w : IsIn(Rotation_values, w)),
          x_axis |-> inner # <<>> /\ IsIn(Split(inner, " "), <<"x">>),
          y_axis |-> inner # <<>> /\ IsIn(Split(inner, " "), <<"y">>),
          physical |-> IF Len(words) = e THEN None
                       ELSE Some(<<StrToNat(SubSeq(words[e + 1], 1, Len(words[e + 1]) - 2), 10),
                                   StrToNat(SubSeq(words[e + 3], 1, Len(words[e + 3]) - 2), 10)>>)]
    ELSE [matched |-> FALSE, supported_rotations |-> <<>>, x_axis |-> FALSE,
          y_axis |-> FALSE, physical |-> None]

HeadlineSupported(words, p) ==
    IF /\ p <= Len(words) /\ Len(words[p]) > 0 /\ words[p][1] = "("
       /\ \E e \in p..Len(words) : Len(words[e]) > 0 /\ words[e][Len(words[e])] = ")"
    THEN LET e == CHOOSE e \in p..Len(words) :
                    /\ Len(words[e]) > 0 /\ words[e][Len(words[e])] = ")"
                    /\ \A j \in p..(e - 1) :
                          Len(words[j]) = 0 \/ words[j][Len(words[j])] # ")"
         IN  HeadlineSupportedAt(words, p, e,
                 SubSeq(Join(SubSeq(words, p, e)), 2,
                        Len(Join(SubSeq(words, p, e))) - 1))
    ELSE HeadlineSupportedAt(<<>>, 1, 1, <<"?">>)

\* HEADLINE_EXPRESSION.match(headline).groupdict(); the connection status
\* ends at word c
HeadlineMatchAt(words, c, pri) ==
    [name |-> words[1],
     connection |-> Join(SubSeq(words, 2, c)),
     primary |-> pri,
     current |-> HeadlineCurrent(words, c + 1 + (IF pri THEN 1 ELSE 0)),
     supported |->
        HeadlineSupported(words,
            HeadlineCurrent(words, c + 1 + (IF pri THEN 1 ELSE 0)).next)]

HeadlineMatch(words) ==
    IF Len(words) >= 2 /\ words[2] \in {W_connected, W_disconnected}
    THEN Some(HeadlineMatchAt(words, 2, Len(words) >= 3 /\ words[3] = W_primary))
    ELSE IF Len(words) >= 3 /\ words[2] = W_unknown /\ words[3] = W_connection
    THEN Some(HeadlineMatchAt(words, 3, Len(words) >= 4 /\ words[4] = W_primary))
    ELSE None

\* variant: an output counts as active when the headline names its current
\* mode
Output_parse_headline_groups_by_mode(headline_parsed) ==
    LET current == headline_parsed.current
        active == current.current_mode # None
    IN  IF active /\ Geometry_new(Get(current.current_geometry)) = None
        THEN [raised |-> Exception("XRandRParseError",
                            <<"Can not parse geometry", Get(current.current_geometry)>>),
              output |-> None, primary |-> FALSE]
        ELSE [raised |-> NoException,
              primary |-> headline_parsed.primary,
              output |-> Some(
                [name |-> headline_parsed.name,
                 connection_status |-> ConnectionStatus(headline_parsed.connection),
                 active |-> active,
                 mode_number |-> current.current_mode,
                 geometry |-> IF active THEN Geometry_new(Get(current.current_geometry))
                              ELSE None,
                 rotation |-> IF active THEN current.current_rotation ELSE None,
                 reflection |-> IF active THEN Some(Reflection(current.current_reflection))
                                ELSE None,
                 supported_rotations |-> headline_parsed.supported.supported_rotations,
                 supported_reflections |->
                    <<W_noaxis>>
                    \o (IF headline_parsed.supported.x_axis THEN <<W_xaxis>> ELSE <<>>)
                    \o (IF headline_parsed.supported.y_axis THEN <<W_yaxis>> ELSE <<>>)
                    \o (IF headline_parsed.supported.x_axis /\ headline_parsed.supported.y_axis
                        THEN <<W_xyaxis>> ELSE <<>>),
                 physical |-> headline_parsed.supported.physical,
                 assigned_modes |-> <<>>])]

\* Output._parse_headline after the match: the attributes of the Output.
\* An attribute that is not set, or is None, is None here.
Output_parse_headline_groups(headline_parsed) ==
    LET current == headline_parsed.current
        active == current.current_geometry # None
    IN  IF active /\ Geometry_new(Get(current.current_geometry)) = None
        THEN [raised |-> Exception("XRandRParseError",
                            <<"Can not parse geometry", Get(current.current_geometry)>>),
              output |-> None, primary |-> FALSE]
        ELSE [raised |-> NoException,
              primary |-> headline_parsed.primary,
              output |-> Some(
                [name |-> headline_parsed.name,
                 connection_status |-> ConnectionStatus(headline_parsed.connection),
                 active |-> active,
                 mode_number |-> current.current_mode,
                 geometry |-> IF active THEN Geometry_new(Get(current.current_geometry))
                              ELSE None,
                 rotation |-> IF active THEN current.current_rotation ELSE None,
                 reflection |-> IF active THEN Some(Reflection(current.current_reflection))
                                ELSE None,
                 supported_rotations |-> headline_parsed.supported.supported_rotations,
                 supported_reflections |->
                    <<W_noaxis>>
                    \o (IF headline_parsed.supported.x_axis THEN <<W_xaxis>> ELSE <<>>)
                    \o (IF headline_parsed.supported.y_axis THEN <<W_yaxis>> ELSE <<>>)
                    \o (IF headline_parsed.supported.x_axis /\ headline_parsed.supported.y_axis
                        THEN <<W_xyaxis>> ELSE <<>>),
                 physical |-> headline_parsed.supported.physical,
                 assigned_modes |-> <<>>])]

\* Output._parse_headline
Output_parse_headline(headline) ==
    IF \/ HeadlineMatch(Split(headline, " ")) = None
       \/ ~Get(HeadlineMatch(Split(headline, " "))).supported.matched
    THEN [raised |-> Exception("XRandRParseError", <<"Unmatched headline", headline>>),
          output |-> None, primary |-> FALSE]
    ELSE Output_parse_headline_groups(Get(HeadlineMatch(Split(headline, " "))))

\* the parts xrandr puts together to a headline: the connection status, the
\* primary marker, the current geometry, mode, rotation and reflection, the
\* supported rotations and reflections, and the physical size
HeadlineParts ==
    [connection : {<<W_connected>>, <<W_disconnected>>, <<W_unknown, W_connection>>,
                   <<W_left>>},
     primary : BOOLEAN,
     current : {<<>>,
                <<<<"2", "x", "2", "+", "0", "+", "0">>, <<"(", "0", "x", "4", "b", ")">>, W_normal>>,
                <<<<"2", "x", "2", "+", "0", "+", "0">>, W_left>>,
                <<<<"3", "x", "1", "+", "2", "+", "-", "1">>, <<"(", "0", "x", "4", "C", ")">>, W_normal, <<"X">>, W_axis>>,
                <<<<"2", "x", "2", "+", "0", "+", "0">>, <<"(", "0", "x", "4", "b", ")">>, W_inverted, <<"X">>, W_and, <<"Y">>, W_axis>>,
                <<<<"2", "x", "2", "+", "0", "+", "0">>, <<"(", "0", "x", "4", "b", ")">>, W_right, W_none>>,
                <<<<"2", "x", "2">>, <<"(", "0", "x", "4", "b", ")">>, W_normal>>,
                <<<<"2", "x", "2", "+", "0", "+", "0">>, <<"(", "0", "x", "4", "b", ")">>>>},
     supported : {<<<<"(", "n", "o", "r", "m", "a", "l">>, W_left, <<"x">>, W_axis, <<"y">>, <<"a", "x", "i", "s", ")">>>>,
                  <<<<"(", "n", "o", "r", "m", "a", "l", ")">>>>, <<<<"(", ")">>>>},
     physical : {<<>>, <<<<"0", "m", "m">>, W_x, <<"0", "m", "m">>>>}]

\* the headline of output LVDS1 put together from the parts
HeadlineText(parts) ==
    Join(<<LVDS1>> \o parts.connection
         \o (IF parts.primary THEN <<W_primary>> ELSE <<>>)
         \o parts.current \o parts.supported \o parts.physical)

InitHeadline == InitCall(HeadlineParts)

ParseHeadline ==
    \E r \in {Output_parse_headline(HeadlineText(callArgs))} :
        Call("_parse_headline", r.raised, r.output)

NextHeadline == ParseHeadline

SpecHeadline == InitHeadline /\ [][NextHeadline]_vars

\* C17: an Output the parser produced is active if and only if its headline
\* carried a current geometry; an active Output has a geometry, a rotation
\* and a reflection, which is noaxis when the headline names none; an
\* Output that is not active has none of the three.
ActiveIffGeometry ==
    (lastOp = "_parse_headline" /\ raised = NoException) =>
        LET output == Get(result)
        IN  /\ output.active <=> callArgs.current # <<>>
            /\ output.active =>
                  /\ output.geometry # None
                  /\ output.rotation # None
                  /\ output.reflection # None
                  /\ IsIn(Rotation_values, callArgs.current[Len(callArgs.current)])
                        => output.reflection = Some(W_noaxis)
            /\ ~output.active =>
                  /\ output.geometry = None
                  /\ output.rotation = None
                  /\ output.reflection = None

ActiveIffGeometry_witness ==
    /\ lastOp = "_parse_headline"
    /\ raised = NoException
    /\ callArgs.current = <<<<"2", "x", "2", "+", "0", "+", "0">>, W_left>>
    /\ Get(result).active
    /\ Get(result).geometry = Some(Geometry(2, 2, 0, 0))
    /\ Get(result).rotation = Some(W_left)
    /\ Get(result).reflection = Some(W_noaxis)

\* ------------------------------------------------------------------------
\* Server.ServerMode.parse_xrandr, Server._load_modes and Server.load
\* (xrandr/server.py)
\*
\* XRANDR_EXPRESSIONS are matched word by word, a run of blanks separating
\* two words.  A ServerMode carries the number of the parse_xrandr call that
\* created it (obj): two modes are the same object if they agree on it.
\* ------------------------------------------------------------------------

W_MHz == <<"M", "H", "z">>

W_KHz == <<"K", "H", "z">>

W_Hz == <<"H", "z">>

W_width == <<"w", "i", "d", "t", "h">>

W_height == <<"h", "e", "i", "g", "h", "t">>

W_start == <<"s", "t", "a", "r", "t">>

W_end == <<"e", "n", "d">>

W_total == <<"t", "o", "t", "a", "l">>

W_skew == <<"s", "k", "e", "w">>

W_clock == <<"c", "l", "o", "c", "k">>

W_preferred == <<"+", "p", "r", "e", "f", "e", "r", "r", "e", "d">>

W_currentflag == <<"*", "c", "u", "r", "r", "e", "n", "t">>

\* ModeFlag.values
ModeFlag_values ==
    <<<<"+", "H", "S", "y", "n", "c">>, <<"-", "H", "S", "y", "n", "c">>, <<"+", "V", "S", "y", "n", "c">>, <<"-", "V", "S", "y", "n", "c">>, <<"I", "n", "t", "e", "r", "l", "a", "c", "e">>, <<"D", "o", "u", "b", "l", "e", "S", "c", "a", "n">>,
      <<"+", "C", "S", "y", "n", "c">>, <<"-", "C", "S", "y", "n", "c">>, <<"C", "S", "y", "n", "c">>>>

NonEmptyWords(line) == SelectSeq(Split(line, " "), LAMBDA w : w # <<>>)

\* the word is <decimal digits>.<decimal digits><unit>
IsClockWord(w, unit) ==
    /\ Len(w) > Len(unit)
    /\ SubSeq(w, Len(w) - Len(unit) + 1, Len(w)) = unit
    /\ LET parts == Split(SubSeq(w, 1, Len(w) - Len(unit)), ".")
       IN  /\ Len(parts) = 2
           /\ \A i \in 1..2 : Len(parts[i]) > 0 /\ AllIn(parts[i], DecimalChars)

\* number of words from the given one on that are all among the allowed ones
WordRun(words, from, allowed) ==
    CHOOSE n \in 0..(Len(words) - from + 1) :
        /\ \A i \in from..(from + n - 1) : IsIn(allowed, words[i])
        /\ from + n > Len(words) \/ ~IsIn(allowed, words[from + n])

\* the second and third expression: six blanks, the head, then pairs of a
\* label and a number, then the clock; the numbers, or None for no match
TimingLine(line, head, labels, unit) ==
    LET words == NonEmptyWords(line)
    IN  IF /\ StartsWith(line, <<" ", " ", " ", " ", " ", " ">> \o head)
           /\ Len(words) = 2 * Len(labels) + 3
           /\ words[1] = head
           /\ \A i \in 1..Len(labels) :
                 /\ words[2 * i] = labels[i]
                 /\ Len(words[2 * i + 1]) > 0
                 /\ AllIn(words[2 * i + 1], DecimalChars)
           /\ words[Len(words) - 1] = W_clock
           /\ IsClockWord(words[Len(words)], unit)
        THEN Some([i \in 1..Len(labels) |-> StrToNat(words[2 * i + 1], 10)])
        ELSE None

\* the first expression matches with the mode id at word k (None: no match)
SummaryLine(line) ==
    LET words == NonEmptyWords(line)
        heads == {k \in 2..(Len(words) - 1) :
                    IsModeIdWord(words[k]) /\ IsClockWord(words[k + 1], W_MHz)}
    IN  IF heads = {} THEN None
        ELSE Some([words |-> words,
                   k |-> CHOOSE k \in heads : \A j \in heads : j <= k])

\* cls(...) of the matched groups with is_preferred, is_current, name and id
ServerMode_new(words, k, flags, serverflags, h, v, obj) ==
    [pclk |-> Get(ParseFloat(SubSeq(words[k + 1], 1, Len(words[k + 1]) - 3))),
     hdisp |-> h[1], hsyncstart |-> h[2], hsyncend |-> h[3], htotal |-> h[4],
     vdisp |-> v[1], vsyncstart |-> v[2], vsyncend |-> v[3], vtotal |-> v[4],
     flags |-> SubSeq(words, k + 2, k + 1 + flags),
     is_preferred |->
        IsIn(SubSeq(words, k + 2 + flags, k + 1 + flags + serverflags), W_preferred),
     is_current |->
        IsIn(SubSeq(words, k + 2 + flags, k + 1 + flags + serverflags), W_currentflag),
     name |-> Join(SubSeq(words, 1, k - 1)),
     id |-> ModeIdOfWord(words[k]),
     obj |-> obj]

\* ServerMode.parse_xrandr on the three lines of a mode
ServerMode_parse_xrandr(lines, obj) ==
    LET summary == SummaryLine(lines[1])
        h == TimingLine(lines[2], <<"h", ":">>,
                        <<W_width, W_start, W_end, W_total, W_skew>>, W_KHz)
        v == TimingLine(lines[3], <<"v", ":">>,
                        <<W_height, W_start, W_end, W_total>>, W_Hz)
    IN  IF \E i \in 1..3 : <<summary, h, v>>[i] = None
        THEN [raised |-> Exception("XRandRParseError",
                            <<"Can not parse mode line",
                              lines[CHOOSE i \in 1..3 :
                                      /\ <<summary, h, v>>[i] = None
                                      /\ \A j \in 1..(i - 1) : <<summary, h, v>>[j] # None]>>),
              mode |-> None]
        ELSE [raised |-> NoException,
              mode |-> Some(ServerMode_new(
                  Get(summary).words, Get(summary).k,
                  WordRun(Get(summary).words, Get(summary).k + 2, ModeFlag_values),
                  WordRun(Get(summary).words,
                          Get(summary).k + 2
                          + WordRun(Get(summary).words, Get(summary).k + 2, ModeFlag_values),
                          <<W_currentflag, W_preferred>>),
                  Get(h), Get(v), obj))]

\* the BaseMode tuple of a mode, which == and != compare
ModeTuple(m) ==
    <<m.pclk, m.hdisp, m.hsyncstart, m.hsyncend, m.htotal,
      m.vdisp, m.vsyncstart, m.vsyncend, m.vtotal, m.flags>>

\* _load_modes: the mode is appended to the output's assigned modes; an
\* active output without current mode takes the first mode of its size
Output_assign(output, mode) ==
    [output EXCEPT
        !.assigned_modes = Append(@, mode),
        !.mode_number =
            IF /\ output.active /\ output.mode_number = None
               /\ mode.hdisp = Geometry_width(Get(output.geometry))
               /\ mode.vdisp = Geometry_height(Get(output.geometry))
            THEN Some(mode.id) ELSE @]

\* variant: the mode just parsed is assigned, also when the catalog has it
Server_load_modes_catalog_parsed(modes, mode) ==
    [modes |-> IF mode.id \in DOMAIN modes THEN modes ELSE modes @@ (mode.id :> mode),
     mode |-> mode]

\* _load_modes: the catalog after the mode is looked up in it, and the
\* object that is assigned to the output
Server_load_modes_catalog(modes, mode) ==
    IF mode.id \in DOMAIN modes
    THEN [modes |-> modes, mode |-> modes[mode.id]]
    ELSE [modes |-> modes @@ (mode.id :> mode), mode |-> mode]

RECURSIVE Server_load_modes(_, _, _, _)
\* _load_modes, one parsed mode on
Server_load_modes_parsed(data, output, modes, created, parsed) ==
    IF parsed.raised # NoException
    THEN [raised |-> parsed.raised, output |-> output, modes |-> modes,
          created |-> created + 1]
    ELSE IF /\ Get(parsed.mode).id \in DOMAIN modes
            /\ ModeTuple(Get(parsed.mode)) # ModeTuple(modes[Get(parsed.mode).id])
    THEN [raised |-> Exception("XRandRParseError",
                        <<"Mode shows up twice with different data", Get(parsed.mode).id>>),
          output |-> output, modes |-> modes, created |-> created + 1]
    ELSE Server_load_modes(
            SubSeq(data, 4, Len(data)),
            Output_assign(output, Server_load_modes_catalog(modes, Get(parsed.mode)).mode),
            Server_load_modes_catalog(modes, Get(parsed.mode)).modes,
            created + 1)

\* Server._load_modes(data, assign_to_output): modes is self.modes, created
\* the number of ServerMode objects created so far
Server_load_modes(data, output, modes, created) ==
    IF Len(data) % 3 # 0
    THEN [raised |-> Exception("XRandRParseError",
                        <<"Unknown mode line format (not a multiple of 3)">>),
          output |-> output, modes |-> modes, created |-> created]
    ELSE IF data = <<>>
    THEN [raised |-> NoException, output |-> output, modes |-> modes,
          created |-> created]
    ELSE Server_load_modes_parsed(data, output, modes, created,
            ServerMode_parse_xrandr(SubSeq(data, 1, 3), created + 1))

\* number of lines from the given one on that all start with the character
LineRun(lines, from, char) ==
    CHOOSE n \in 0..(Len(lines) - from + 1) :
        /\ \A i \in from..(from + n - 1) : StartsWith(lines[i], <<char>>)
        /\ from + n > Len(lines) \/ ~StartsWith(lines[from + n], <<char>>)

\* a Server whose load has not set outputs, modes and primary
EmptyServer(virtual) ==
    [virtual |-> virtual, outputs |-> <<>>, modes |-> <<>>, primary |-> None,
     created |-> 0]

RECURSIVE Server_load_outputs(_, _)
\* load: the Output is stored, then its modes are loaded
Server_load_stored(rest, srv, name, listed) ==
    IF listed.raised # NoException
    THEN [raised |-> listed.raised,
          server |-> [srv EXCEPT !.outputs[name] = listed.output,
                                 !.modes = listed.modes,
                                 !.created = listed.created]]
    ELSE Server_load_outputs(rest,
            [srv EXCEPT !.outputs[name] = listed.output,
                        !.modes = listed.modes,
                        !.created = listed.created])

\* load: one output section of a headline, d lines of details and m lines
\* of modes.  The details (properties of the output) are taken off the
\* lines and not interpreted.
Server_load_section(lines, srv, d, m, parsed) ==
    IF parsed.raised # NoException
    THEN [raised |-> parsed.raised, server |-> srv]
    ELSE Server_load_stored(
            SubSeq(lines, 2 + d + m, Len(lines)),
            [srv EXCEPT
                !.outputs = (Get(parsed.output).name :> Get(parsed.output))
                            @@ srv.outputs,
                !.primary = IF parsed.primary THEN Some(Get(parsed.output).name) ELSE @],
            Get(parsed.output).name,
            Server_load_modes(
                [i \in 1..m |-> SubSeq(lines[1 + d + i], 3, Len(lines[1 + d + i]))],
                Get(parsed.output), srv.modes, srv.created))

\* load: the loop over the output sections
Server_load_outputs(lines, srv) ==
    IF lines = <<>> THEN [raised |-> NoException, server |-> srv]
    ELSE IF StartsWith(lines[1], <<" ">>) \/ StartsWith(lines[1], <<"\t">>)
    THEN [raised |-> Exception("XRandRParseError",
                        <<"Expected new output section, got whitespace.">>),
          server |-> srv]
    ELSE Server_load_section(lines, srv,
            LineRun(lines, 2, "\t"),
            LineRun(lines, 2 + LineRun(lines, 2, "\t"), " "),
            Output_parse_headline(lines[1]))

\* load after the screen line
Server_load_screen(lines, screen) ==
    IF screen.raised # NoException
    THEN [raised |-> screen.raised, server |-> EmptyServer(None)]
    ELSE IF Len(lines) = 1
    THEN [raised |-> Exception("IndexError", <<"pop from empty list">>),
          server |-> EmptyServer(screen.virtual)]
    ELSE IF lines[Len(lines)] # <<>>
    THEN [raised |-> Exception("XRandRParseError",
                        <<"Output doesn't end with a newline.">>),
          server |-> EmptyServer(screen.virtual)]
    ELSE Server_load_outputs(SubSeq(lines, 2, Len(lines) - 1),
                             EmptyServer(screen.virtual))

\* Server.load(verbose_output): the exception raised and the attributes of
\* the Server as load leaves them
Server_load(verbose_output) ==
    Server_load_screen(
        Split(verbose_output, "\n"),
        Server_load_parse_screenline(Split(verbose_output, "\n")[1],
                                     Split(Split(verbose_output, "\n")[1], " ")))

RECURSIVE JoinLines(_)
\* "\n".join(lines)
JoinLines(lines) ==
    IF Len(lines) = 0 THEN <<>>
    ELSE IF Len(lines) = 1 THEN lines[1]
    ELSE lines[1] \o <<"\n">> \o JoinLines(Tail(lines))

\* largest number of modes xrandr lists under the first output
MaxListed == 2

\* the modes xrandr lists: mode 0x4b as preferred and current, the same mode
\* without server flags, a mode 0x4b of another pixel clock, and mode 0x4c
Listings ==
    {[name |-> Name_2x2, id |-> <<"4", "b">>, clock |-> <<"1", ".", "0">>,
      hdisp |-> 2, vdisp |-> 2, preferred |-> TRUE, current |-> TRUE],
     [name |-> Name_2x2, id |-> <<"4", "b">>, clock |-> <<"1", ".", "0">>,
      hdisp |-> 2, vdisp |-> 2, preferred |-> FALSE, current |-> FALSE],
     [name |-> Name_2x2, id |-> <<"4", "b">>, clock |-> <<"2", ".", "0">>,
      hdisp |-> 2, vdisp |-> 2, preferred |-> FALSE, current |-> FALSE],
     [name |-> Name_3x1, id |-> <<"4", "c">>, clock |-> <<"1", ".", "0">>,
      hdisp |-> 3, vdisp |-> 1, preferred |-> FALSE, current |-> FALSE]}

\* the three lines xrandr prints for a listed mode
ListingLines(l) ==
    <<<<" ", " ">>
      \o Join(<<l.name, <<"(", "0", "x">> \o l.id \o <<")">>, l.clock \o W_MHz,
                <<"+", "H", "S", "y", "n", "c">>>>
              \o (IF l.current THEN <<W_currentflag>> ELSE <<>>)
              \o (IF l.preferred THEN <<W_preferred>> ELSE <<>>)),
      <<" ", " ", " ", " ", " ", " ", " ", " ">>
      \o Join(<<<<"h", ":">>, W_width, FormatInt(l.hdisp), W_start, <<"0">>,
                W_end, <<"0">>, W_total, FormatInt(l.hdisp), W_skew, <<"0">>,
                W_clock, l.clock \o W_KHz>>),
      <<" ", " ", " ", " ", " ", " ", " ", " ">>
      \o Join(<<<<"v", ":">>, W_height, FormatInt(l.vdisp), W_start, <<"0">>,
                W_end, <<"0">>, W_total, FormatInt(l.vdisp),
                W_clock, l.clock \o W_Hz>>)>>

RECURSIVE ListingsLines(_)
ListingsLines(listings) ==
    IF listings = <<>> THEN <<>>
    ELSE ListingLines(listings[1]) \o ListingsLines(Tail(listings))

\* the lists of at most n listed modes
ListingLists(n) == UNION {[1..k -> Listings] : k \in 0..n}

\* what xrandr --query --verbose prints: the screen line, LVDS1 active at
\* 2x2+0+0 (with or without the id of its current mode) and HDMI1 connected
\* (with at most one mode), each with its modes; the text as printed, without its last newline, or
\* without its last line
QueryReplies ==
    [headline : {<<LVDS1, W_connected, <<"2", "x", "2", "+", "0", "+", "0">>, <<"(", "0", "x", "4", "b", ")">>, W_normal, <<"(", "n", "o", "r", "m", "a", "l", ")">>>>,
                 <<LVDS1, W_connected, W_primary, <<"2", "x", "2", "+", "0", "+", "0">>, W_normal, <<"(", "n", "o", "r", "m", "a", "l", ")">>>>},
     first : ListingLists(MaxListed),
     second : ListingLists(1),
     damage : {"none", "no newline", "cut"}]

QueryText(reply) ==
    LET lines ==
            <<Join(ScreenWords(<<1, 1>>, <<2, 2>>, <<VirtualMaxWidth, VirtualMaxHeight>>)),
              Join(reply.headline)>>
            \o ListingsLines(reply.first)
            \o <<Join(<<HDMI1, W_connected, <<"(", "n", "o", "r", "m", "a", "l", ")">>>>)>>
            \o ListingsLines(reply.second)
    IN  IF reply.damage = "none" THEN JoinLines(Append(lines, <<>>))
        ELSE IF reply.damage = "no newline" THEN JoinLines(lines)
        ELSE JoinLines(Append(SubSeq(lines, 1, Len(lines) - 1), <<>>))

InitLoad == InitCall(QueryReplies)

Load ==
    \E r \in {Server_load(QueryText(callArgs))} :
        Call("load", r.raised, Some(r.server))

NextLoad == Load

SpecLoad == InitLoad /\ [][NextLoad]_vars

\* the modes listed, in the order of the text
Listed == callArgs.first \o callArgs.second

\* a mode id is listed a second time with another pixel clock
Conflict(i, j) ==
    /\ i < j
    /\ Listed[i].id = Listed[j].id
    /\ Listed[i].clock # Listed[j].clock

\* C15: when a mode id is listed a second time with different timing data,
\* load raises XRandRParseError and the catalog keeps the entry of the first
\* listing; otherwise load succeeds and every assigned mode of every output
\* is the very object the catalog holds under its id.
CatalogShared ==
    (lastOp = "load" /\ callArgs.damage = "none") =>
        IF \E i, j \in 1..Len(Listed) : Conflict(i, j)
        THEN /\ raised.type = "XRandRParseError"
             /\ raised.msg[1] = "Mode shows up twice with different data"
             /\ \A i, j \in 1..Len(Listed) :
                   (Conflict(i, j) /\ \A k \in 1..(i - 1) : Listed[k].id # Listed[i].id)
                   => /\ StrToNat(Listed[i].id, 16) \in DOMAIN Get(result).modes
                      /\ Get(result).modes[StrToNat(Listed[i].id, 16)].pclk
                            = Get(ParseFloat(Listed[i].clock))
        ELSE /\ raised = NoException
             /\ \A name \in DOMAIN Get(result).outputs :
                   \A k \in 1..Len(Get(result).outputs[name].assigned_modes) :
                       LET mode == Get(result).outputs[name].assigned_modes[k]
                       IN  /\ mode.id \in DOMAIN Get(result).modes
                           /\ mode = Get(result).modes[mode.id]

CatalogShared_witness ==
    /\ lastOp = "load"
    /\ raised = NoException
    /\ callArgs.damage = "none"
    /\ Len(callArgs.first) = 2
    /\ Len(callArgs.second) = 1
    /\ callArgs.first[1].id = callArgs.second[1].id
    /\ callArgs.first[2].id # callArgs.second[1].id
    /\ Get(result).outputs[HDMI1].assigned_modes[1]
          = Get(result).outputs[LVDS1].assigned_modes[1]
    /\ Get(result).outputs[HDMI1].assigned_modes[1].obj = 1
    /\ Get(result).created = 3

\* C16: after a successful load of outputs that each list a mode id once,
\* each assigned mode of each output is preferred exactly if its listing
\* under that output is marked +preferred, and current exactly if that
\* listing is marked *current.
FlagsPerAssignment ==
    (/\ lastOp = "load" /\ callArgs.damage = "none" /\ raised = NoException
     /\ \A i, j \in 1..Len(callArgs.first) :
           i # j => callArgs.first[i].id # callArgs.first[j].id) =>
        /\ \A k \in 1..Len(callArgs.first) :
              LET mode == Get(result).outputs[LVDS1].assigned_modes[k]
              IN  /\ mode.is_preferred = callArgs.first[k].preferred
                  /\ mode.is_current = callArgs.first[k].current
        /\ \A k \in 1..Len(callArgs.second) :
              LET mode == Get(result).outputs[HDMI1].assigned_modes[k]
              IN  /\ mode.is_preferred = callArgs.second[k].preferred
                  /\ mode.is_current = callArgs.second[k].current

\* ------------------------------------------------------------------------
\* Server.Version.__init__ and Server.__init__ (xrandr/server.py)
\* ------------------------------------------------------------------------

SERVERVERSION_PREFIX == <<"S", "e", "r", "v", "e", "r", " ", "r", "e", "p", "o", "r", "t", "s", " ", "R", "a", "n", "d", "R", " ", "v", "e", "r", "s", "i", "o", "n">>

PROGRAMVERSION_PREFIX == <<"x", "r", "a", "n", "d", "r", " ", "p", "r", "o", "g", "r", "a", "m", " ", "v", "e", "r", "s", "i", "o", "n">>

RECURSIVE Strip(_)
\* s.strip()
Strip(s) ==
    IF Len(s) > 0 /\ s[1] \in {" ", "\t", "\n"} THEN Strip(Tail(s))
    ELSE IF Len(s) > 0 /\ s[Len(s)] \in {" ", "\t", "\n"}
    THEN Strip(SubSeq(s, 1, Len(s) - 1))
    ELSE s

\* sub in s
Contains(s, sub) ==
    \E i \in 1..(Len(s) - Len(sub) + 1) : SubSeq(s, i, i + Len(sub) - 1) = sub

\* what the loop over the lines leaves in server_version or program_version:
\* the stripped rest of the last line that starts with the prefix, or None
VersionLine(lines, prefix) ==
    IF \A i \in 1..Len(lines) : ~StartsWith(lines[i], prefix) THEN None
    ELSE LET last == CHOOSE i \in 1..Len(lines) :
                        /\ StartsWith(lines[i], prefix)
                        /\ \A j \in (i + 1)..Len(lines) : ~StartsWith(lines[j], prefix)
         IN  Some(Strip(SubSeq(lines[last], Len(prefix) + 1, Len(lines[last]))))

\* the program version Version.__init__ assumes when xrandr reports none
InferredProgramVersion(help_string) ==
    IF Contains(help_string, OPT_output)
    THEN IF Contains(help_string, OPT_primary) THEN <<"1", ".", "3", ".", "0">> ELSE <<"1", ".", "2", ".", "x">>
    ELSE <<"<", " ", "1", ".", "2">>

\* Server.Version.__init__(help_string, version_string), lines being the
\* non-empty lines of version_string
Server_Version(help_string, lines) ==
    IF VersionLine(lines, SERVERVERSION_PREFIX) = None
    THEN [raised |-> Exception("XRandRParseError",
                        <<"XRandR did not report a server version.">>),
          version |-> None]
    ELSE [raised |-> NoException,
          version |-> Some(
            [server_version |-> Get(VersionLine(lines, SERVERVERSION_PREFIX)),
             program_version |->
                IF VersionLine(lines, PROGRAMVERSION_PREFIX) \in {None, Some(<<>>)}
                THEN InferredProgramVersion(help_string)
                ELSE Get(VersionLine(lines, PROGRAMVERSION_PREFIX))])]

\* variant: the version the server reports is the one that is tested
Server_untested_version_of_server(version) ==
    ~\E tested \in {<<"1", ".", "2">>, <<"1", ".", "3">>, <<"1", ".", "4">>} : StartsWith(version.server_version, tested)

\* Server.__init__: the version is not one of those arandr is tested with
Server_untested_version(version) ==
    ~\E tested \in {<<"1", ".", "2">>, <<"1", ".", "3">>, <<"1", ".", "4">>} : StartsWith(version.program_version, tested)

\* Server.__init__ once the version is read; queried tells whether
\* xrandr --query --verbose was run and its output handed to load
Server_init_versioned(query, force_version, versioned) ==
    IF versioned.raised # NoException
    THEN [raised |-> versioned.raised, version |-> None, queried |-> FALSE,
          server |-> EmptyServer(None)]
    ELSE IF ~force_version /\ Server_untested_version(Get(versioned.version))
    THEN [raised |-> Exception("Exception", <<"XRandR 1.2 to 1.4 required.">>),
          version |-> versioned.version, queried |-> FALSE,
          server |-> EmptyServer(None)]
    ELSE [raised |-> Server_load(query).raised, version |-> versioned.version,
          queried |-> TRUE, server |-> Server_load(query).server]

\* Server.__init__(context, force_version), the context answering
\* xrandr --help, xrandr --version and xrandr --query --verbose
Server_init(context, force_version) ==
    Server_init_versioned(
        context.query, force_version,
        Server_Version(context.help,
                       SelectSeq(Split(context.version, "\n"), LAMBDA l : l # <<>>)))

\* the versions xrandr reports: none, or a version number
ReportedVersions == {None, Some(<<"1", ".", "1">>), Some(<<"1", ".", "3">>), Some(<<"1", ".", "5">>)}

ReportedProgramVersions ==
    {None, Some(<<"1", ".", "1", ".", "0">>), Some(<<"1", ".", "2", ".", "2">>), Some(<<"1", ".", "4", ".", "1">>), Some(<<"1", ".", "5", ".", "0">>)}

\* what xrandr --help prints, by the options it knows
HelpTexts ==
    {<<"u", "s", "a", "g", "e", ":", " ", "x", "r", "a", "n", "d", "r", " ", "[", "-", "-", "o", "u", "t", "p", "u", "t", " ", "<", "o", "u", "t", "p", "u", "t", ">", "]", " ", "[", "-", "-", "p", "r", "i", "m", "a", "r", "y", "]">>,
     <<"u", "s", "a", "g", "e", ":", " ", "x", "r", "a", "n", "d", "r", " ", "[", "-", "-", "o", "u", "t", "p", "u", "t", " ", "<", "o", "u", "t", "p", "u", "t", ">", "]">>,
     <<"u", "s", "a", "g", "e", ":", " ", "x", "r", "a", "n", "d", "r", " ", "[", "-", "s", " ", "<", "s", "i", "z", "e", ">", "]">>}

\* a call of Server(context, force_version): the versions xrandr reports,
\* its help text, whether its query output is well formed, force_version
ServerCalls ==
    [server_version : ReportedVersions, program_version : ReportedProgramVersions,
     help : HelpTexts, damage : {"none", "no newline"}, force_version : BOOLEAN]

\* the answers of xrandr in such a call
CallContext(call) ==
    [help |-> call.help,
     version |->
        JoinLines(
            (IF call.program_version = None THEN <<>>
             ELSE <<PROGRAMVERSION_PREFIX \o <<" ", " ", " ", " ", " ", " ", " ">>
                    \o Get(call.program_version)>>)
            \o (IF call.server_version = None THEN <<>>
                ELSE <<SERVERVERSION_PREFIX \o <<" ">> \o Get(call.server_version)>>)
            \o <<<<>>>>),
     query |->
        QueryText([headline |-> <<LVDS1, W_connected, <<"2", "x", "2", "+", "0", "+", "0">>, <<"(", "0", "x", "4", "b", ")">>, W_normal,
                                   <<"(", "n", "o", "r", "m", "a", "l", ")">>>>,
                   first |-> <<>>, second |-> <<>>, damage |-> call.damage])]

InitServer == InitCall(ServerCalls)

ServerInit ==
    \E r \in {Server_init(CallContext(callArgs), callArgs.force_version)} :
        Call("Server", r.raised,
             Some([version |-> r.version, queried |-> r.queried, server |-> r.server]))

NextServer == ServerInit

SpecServer == InitServer /\ [][NextServer]_vars

\* C19 as stated: when xrandr reports a server version, Server() raises
\* before the query output is parsed if that version is not 1.2, 1.3 or 1.4
\* and force_version is false, and it goes on to the query with
\* force_version true.
RefusesUnsupportedServer ==
    (lastOp = "Server" /\ callArgs.server_version # None) =>
        /\ (~callArgs.force_version
            /\ Get(callArgs.server_version) \notin {<<"1", ".", "2">>, <<"1", ".", "3">>, <<"1", ".", "4">>})
           => (raised.type = "Exception" /\ ~Get(result).queried)
        /\ callArgs.force_version => Get(result).queried

\* the program version of a call: the one xrandr reports, else the one its
\* help text stands for
ProgramVersionOf(call) ==
    IF call.program_version # None THEN Get(call.program_version)
    ELSE IF ~Contains(call.help, OPT_output) THEN <<"<", " ", "1", ".", "2">>
    ELSE IF Contains(call.help, OPT_primary) THEN <<"1", ".", "3", ".", "0">>
    ELSE <<"1", ".", "2", ".", "x">>

\* C19 amended: when xrandr reports a server version, Server() raises before
\* the query output is parsed exactly if force_version is false and the
\* program version (reported, or inferred from the help text) does not start
\* with 1.2, 1.3 or 1.4; the version the server reports is not tested, and
\* with force_version true the query output is always parsed.
RefusesUntestedProgram ==
    (lastOp = "Server" /\ callArgs.server_version # None) =>
        LET tested == \E v \in {<<"1", ".", "2">>, <<"1", ".", "3">>, <<"1", ".", "4">>} :
                          StartsWith(ProgramVersionOf(callArgs), v)
        IN  IF ~callArgs.force_version /\ ~tested
            THEN /\ raised = Exception("Exception", <<"XRandR 1.2 to 1.4 required.">>)
                 /\ ~Get(result).queried
            ELSE /\ Get(result).queried
                 /\ raised.type # "Exception"

RefusesUntestedProgram_witness ==
    /\ lastOp = "Server"
    /\ callArgs.server_version = Some(<<"1", ".", "3">>)
    /\ callArgs.program_version = Some(<<"1", ".", "5", ".", "0">>)
    /\ ~callArgs.force_version
    /\ raised.type = "Exception"
    /\ ~Get(result).queried

\* ------------------------------------------------------------------------
\* polygon.ConvexPolygon.point_distance (polygon.py)
\*
\* The floats of the code are rationals here: s and t are S/det and T/det,
\* and a distance is held as its square, the fraction num/den with den > 0.
\* ------------------------------------------------------------------------

\* largest side of a rectangle
MaxSide == 2

\* largest coordinate of a point
MaxCoordinate == 8

vector(start, end) == <<end[1] - start[1], end[2] - start[2]>>

\* ConvexPolygon.segments
ConvexPolygon_segments(polygon) ==
    [i \in 1..Len(polygon) |-> <<polygon[i], polygon[(i % Len(polygon)) + 1]>>]

\* _transform_point_to_segments for the segment from a to b: 1 / invdet,
\* the numerators of s and t, and the square of seglen
ConvexPolygon_transform_point(a, b, x, y) ==
    LET v == vector(a, b)
        n == <<v[2], 0 - v[1]>>
        relative_point == <<x - a[1], y - a[2]>>
    IN  [det |-> v[1] * n[2] - n[1] * v[2],
         S |-> n[2] * relative_point[1] - n[1] * relative_point[2],
         T |-> (0 - v[2]) * relative_point[1] + v[1] * relative_point[2],
         L2 |-> v[1] * v[1] + v[2] * v[2]]

\* variant: past the end of the segment the distance to its line is offered
ConvexPolygon_offer_perpendicular(c) ==
    IF c.S * c.det < 0
    THEN [num |-> c.L2 * (c.S * c.S + c.T * c.T), den |-> c.det * c.det]
    ELSE [num |-> c.T * c.T * c.L2, den |-> c.det * c.det]

\* point_distance: the square of the value offered to min_positive for a
\* segment with t >= 0
ConvexPolygon_offer(c) ==
    IF c.S * c.det >= 0 /\ c.S * c.det <= c.det * c.det
    THEN [num |-> c.T * c.T * c.L2, den |-> c.det * c.det]
    ELSE IF c.S * c.det < 0
    THEN [num |-> c.L2 * (c.S * c.S + c.T * c.T), den |-> c.det * c.det]
    ELSE [num |-> c.L2 * ((c.S - c.det) * (c.S - c.det) + c.T * c.T),
          den |-> c.det * c.det]

\* ConvexPolygon.point_distance(x, y): the square of the value returned
ConvexPolygon_point_distance(polygon, x, y) ==
    LET segments == ConvexPolygon_segments(polygon)
        offers == {ConvexPolygon_offer(c) :
                    c \in {d \in {ConvexPolygon_transform_point(
                                      segments[i][1], segments[i][2], x, y) :
                                  i \in 1..Len(segments)} :
                            d.T * d.det >= 0}}
    IN  IF offers = {} THEN [num |-> 0, den |-> 1]
        ELSE CHOOSE m \in offers : \A o \in offers : m.num * o.den <= o.num * m.den

\* the counter-clockwise rectangle with the given corner and sides
Rectangle(left, bottom, width, height) ==
    <<<<left, bottom>>, <<left + width, bottom>>,
      <<left + width, bottom + height>>, <<left, bottom + height>>>>

\* calls of point_distance: a rectangle and a point with integer coordinates
PointDistanceCalls ==
    [polygon : {Rectangle(left, 2, width, height) :
                    left \in 1..2, width \in 1..MaxSide, height \in 1..MaxSide},
     x : 0..MaxCoordinate, y : 0..MaxCoordinate]

InitPolygon == InitCall(PointDistanceCalls)

PointDistance ==
    \E r \in {ConvexPolygon_point_distance(callArgs.polygon, callArgs.x, callArgs.y)} :
        Call("point_distance", NoException, Some(r))

NextPolygon == PointDistance

SpecPolygon == InitPolygon /\ [][NextPolygon]_vars

\* how far the coordinate lies outside the interval from low to high
Outside(low, high, c) ==
    IF c < low THEN low - c ELSE IF c > high THEN c - high ELSE 0

\* C20: for a counter-clockwise axis-aligned rectangle and an integer point,
\* point_distance returns 0 exactly if the point is inside or on the
\* boundary, and else the Euclidean distance to the nearest boundary point
\* (compared as squares).
PointDistanceIsEuclidean ==
    lastOp = "point_distance" =>
        LET dx == Outside(callArgs.polygon[1][1], callArgs.polygon[3][1], callArgs.x)
            dy == Outside(callArgs.polygon[1][2], callArgs.polygon[3][2], callArgs.y)
        IN  /\ Get(result).den > 0
            /\ Get(result).num = (dx * dx + dy * dy) * Get(result).den
            /\ Get(result).num = 0 <=> (dx = 0 /\ dy = 0)

PointDistanceIsEuclidean_witness ==
    /\ lastOp = "point_distance"
    /\ callArgs.polygon = <<<<2, 2>>, <<4, 2>>, <<4, 4>>, <<2, 4>>>>
    /\ callArgs.x = 7
    /\ callArgs.y = 8
    /\ Get(result).num = 25 * Get(result).den

\* ------------------------------------------------------------------------
\* snap.Snap (snap.py)
\*
\* self.vertical and self.horizontal are sets: the order in which a list
\* comprehension walks them is not defined by the language, so the first
\* element of the filtered list is any element of the filtered set.
\* ------------------------------------------------------------------------

Abs(n) == IF n < 0 THEN 0 - n ELSE n

\* Snap.__init__(size, tolerance, geometries)
Snap_init(size, tolerance, geometries) ==
    [tolerance |-> tolerance,
     vertical |->
        UNION {{Geometry_left(g), Geometry_left(g) + Geometry_width(g),
                Geometry_left(g) - size[1],
                Geometry_left(g) + Geometry_width(g) - size[1]} : g \in geometries},
     horizontal |->
        UNION {{Geometry_top(g), Geometry_top(g) + Geometry_height(g),
                Geometry_top(g) - size[2],
                Geometry_top(g) + Geometry_height(g) - size[2]} : g \in geometries}]

\* suggest: the values the coordinate c can be replaced with, c itself when
\* the filtered list is empty
Snap_suggest_coordinate(candidates, c, tolerance) ==
    IF {v \in candidates : Abs(v - c) < tolerance} = {} THEN {c}
    ELSE {v \in candidates : Abs(v - c) < tolerance}

\* calls of Snap(size, tolerance, geometries).suggest(position)
SnapCalls ==
    [size : {<<1, 1>>, <<2, 1>>},
     tolerance : {1, 3},
     geometries : {{Geometry(3, 3, 0, 0)}, {Geometry(3, 3, 0, 0), Geometry(2, 2, 3, 0)}},
     position : (0..MaxCoordinate) \X (0..MaxCoordinate)]

InitSnap == InitCall(SnapCalls)

\* Snap.suggest(position)
Suggest ==
    \E snap \in {Snap_init(callArgs.size, callArgs.tolerance, callArgs.geometries)} :
        \E x \in Snap_suggest_coordinate(snap.vertical, callArgs.position[1],
                                         snap.tolerance),
           y \in Snap_suggest_coordinate(snap.horizontal, callArgs.position[2],
                                         snap.tolerance) :
            Call("suggest", NoException, Some(<<x, y>>))

NextSnap == Suggest

SpecSnap == InitSnap /\ [][NextSnap]_vars

\* the coordinate c is replaced by a nearest candidate within the tolerance,
\* and kept when there is none
SnappedToNearest(candidates, c, tolerance, suggested) ==
    IF \E v \in candidates : Abs(v - c) < tolerance
    THEN /\ suggested \in candidates
         /\ \A v \in candidates : Abs(suggested - c) <= Abs(v - c)
    ELSE suggested = c

\* C21: suggest replaces x by the nearest candidate within tolerance if there
\* is one and keeps it otherwise, and the same for y; the candidates of an
\* axis are the two edges of every obstacle and those edges minus the size
\* of the dragged rectangle.
SuggestNearest ==
    lastOp = "suggest" =>
        /\ SnappedToNearest(
              UNION {{g[3], g[3] + g[1], g[3] - callArgs.size[1],
                      g[3] + g[1] - callArgs.size[1]} : g \in callArgs.geometries},
              callArgs.position[1], callArgs.tolerance, Get(result)[1])
        /\ SnappedToNearest(
              UNION {{g[4], g[4] + g[2], g[4] - callArgs.size[2],
                      g[4] + g[2] - callArgs.size[2]} : g \in callArgs.geometries},
              callArgs.position[2], callArgs.tolerance, Get(result)[2])

\* ------------------------------------------------------------------------
\* executions.ManagedExecution (executions/__init__.py)
\*
\* A process is what communicate() and returncode give once it has ended:
\* [stdout, stderr, returncode], the two streams as strings.
\* ------------------------------------------------------------------------

\* ManagedExecution.read_with_error() of a process without the
\* _finished_execution hook
ManagedExecution_read_with_error(process) ==
    <<process.stdout, process.stderr, process.returncode>>

\* variant: a read() that looks at the exit code only
ManagedExecution_read_exit_code(process) ==
    IF ManagedExecution_read_with_error(process)[3] # 0
    THEN [raised |-> [type |-> "CalledProcessError", msg |-> process.stderr],
          returned |-> None]
    ELSE [raised |-> NoException,
          returned |-> Some(ManagedExecution_read_with_error(process)[1])]

\* ManagedExecution.read()
ManagedExecution_read(process) ==
    IF \/ ManagedExecution_read_with_error(process)[3] # 0
       \/ ManagedExecution_read_with_error(process)[2] # <<>>
    THEN [raised |-> [type |-> "CalledProcessError", msg |-> process.stderr],
          returned |-> None]
    ELSE [raised |-> NoException,
          returned |-> Some(ManagedExecution_read_with_error(process)[1])]

\* what a process can have written and returned
Processes ==
    [stdout : {<<>>, <<"t", "e", "s", "t", "f", "i", "l", "e", "\n">>, <<"4", "2", "\n">>},
     stderr : {<<>>, <<"w", "a", "r", "n", "i", "n", "g", "\n">>, <<"l", "s", ":", " ", "c", "a", "n", "n", "o", "t", " ", "a", "c", "c", "e", "s", "s", " ", "t", "e", "s", "t", "f", "i", "l", "e", "\n">>},
     returncode : {0, 1, 2, 127, -9}]

InitExecution == InitCall(Processes)

Read ==
    \E r \in {ManagedExecution_read(callArgs)} :
        Call("read", r.raised, r.returned)

ReadWithError ==
    \E r \in {ManagedExecution_read_with_error(callArgs)} :
        Call("read_with_error", NoException, Some(r))

NextExecution == Read \/ ReadWithError

SpecExecution == InitExecution /\ [][NextExecution]_vars

\* C22: read() returns the captured stdout only when the process exited with
\* code 0 and wrote nothing to stderr; with a non-zero exit code or any
\* stderr output it raises CalledProcessError and returns nothing.
ReadReturnsOnlyCleanOutput ==
    lastOp = "read" =>
        IF callArgs.returncode = 0 /\ callArgs.stderr = <<>>
        THEN raised = NoException /\ result = Some(callArgs.stdout)
        ELSE raised.type = "CalledProcessError" /\ result = None

\* a process that exits with 0 after writing to both streams is refused
ReadReturnsOnlyCleanOutput_witness ==
    /\ lastOp = "read"
    /\ callArgs.returncode = 0
    /\ callArgs.stderr # <<>>
    /\ callArgs.stdout # <<>>
    /\ raised.type = "CalledProcessError"

\* ------------------------------------------------------------------------
\* executions.context (executions/context.py)
\*
\* A ZIP file is the sequence of its members in the order they were written,
\* each <<name, data>>; reading a name gives the member written last under
\* it, as zipfile.ZipFile does.
\* ------------------------------------------------------------------------

\* pipes._safechars
SafeChars ==
    {"a", "b", "c", "d", "e", "f", "g", "h", "i", "j", "k", "l", "m", "n",
     "o", "p", "q", "r", "s", "t", "u", "v", "w", "x", "y", "z", "A", "B",
     "C", "D", "E", "F", "G", "H", "I", "J", "K", "L", "M", "N", "O", "P",
     "Q", "R", "S", "T", "U", "V", "W", "X", "Y", "Z", "0", "1", "2", "3",
     "4", "5", "6", "7", "8", "9", "@", "%", "_", "-", "+", "=", ":", ",",
     ".", "/"}

RECURSIVE QuoteReplace(_)
\* file.replace("'", "'\"'\"'")
QuoteReplace(file) ==
    IF Len(file) = 0 THEN <<>>
    ELSE IF file[1] = "'"
    THEN <<"'", "\"", "'", "\"", "'">> \o QuoteReplace(Tail(file))
    ELSE <<file[1]>> \o QuoteReplace(Tail(file))

\* pipes.quote(file)
shell_quote(file) ==
    IF AllIn(file, SafeChars)
    THEN IF Len(file) = 0 THEN <<"'", "'">> ELSE file
    ELSE <<"'">> \o QuoteReplace(file) \o <<"'">>

\* args if shell else " ".join(map(shell_quote, args))
CondensedArgs(args, shell) ==
    IF shell THEN args ELSE Join([i \in 1..Len(args) |-> shell_quote(args[i])])

ZipFile_new == <<>>

\* ZipFile.writestr(name, data)
ZipFile_writestr(zip, name, data) == Append(zip, <<name, data>>)

\* whether ZipFile.open(name) finds a member (it raises KeyError if not)
ZipFile_has(zip, name) == \E i \in 1..Len(zip) : zip[i][1] = name

\* ZipFile.open(name).read() of a member that is there
ZipFile_read(zip, name) ==
    zip[CHOOSE i \in 1..Len(zip) :
            zip[i][1] = name /\ \A j \in (i + 1)..Len(zip) : zip[j][1] # name][2]

S_out == <<".", "o", "u", "t">>

S_err == <<".", "e", "r", "r">>

S_exit == <<".", "e", "x", "i", "t">>

S_state == <<".", "s", "t", "a", "t", "e">>

\* ZipfileContext.__call__ once filename is known: the state prefix it
\* leaves, and the VirtualProcess as communicate() and returncode give it
ZipfileContext_call_file(self, filename) ==
    IF ~ZipFile_has(self.zipfile, filename \o S_out)
    THEN [raised |-> [type |-> "KeyError", msg |-> filename \o S_out],
          self |-> self,
          process |-> None]
    ELSE [raised |-> NoException,
          self |-> [self EXCEPT !.state_prefix =
                        IF ZipFile_has(self.zipfile, filename \o S_state)
                        THEN ZipFile_read(self.zipfile, filename \o S_state)
                        ELSE @],
          process |-> Some(
             [stdout |-> ZipFile_read(self.zipfile, filename \o S_out),
              stderr |-> IF ZipFile_has(self.zipfile, filename \o S_err)
                         THEN ZipFile_read(self.zipfile, filename \o S_err)
                         ELSE <<>>,
              returncode |->
                 IF ZipFile_has(self.zipfile, filename \o S_exit)
                 THEN Get(ParseInt(Strip(ZipFile_read(self.zipfile,
                                                      filename \o S_exit))))
                 ELSE 0])]

\* variant: a replay that looks every command up in the initial state
ZipfileContext_call_stateless(self, args, shell) ==
    [ZipfileContext_call_file(self, self.state_prefix \o CondensedArgs(args, shell))
        EXCEPT !.self = self]

\* ZipfileContext.__call__(args, shell, stdout=PIPE, stderr=PIPE)
ZipfileContext_call(self, args, shell) ==
    ZipfileContext_call_file(self, self.state_prefix \o CondensedArgs(args, shell))

\* ZipfileContext.__init__(zipfilename), the file holding zip
ZipfileContext_init(zip) == [state_prefix |-> <<>>, zipfile |-> zip]

\* ------------------------------------------------------------------------
\* The crafted state machine of the tests (executions/test/__init__.py)
\* ------------------------------------------------------------------------

C_ls == <<"l", "s", " ", "t", "e", "s", "t", "f", "i", "l", "e">>

C_touch == <<"t", "o", "u", "c", "h", " ", "t", "e", "s", "t", "f", "i", "l", "e">>

C_rm == <<"r", "m", " ", "t", "e", "s", "t", "f", "i", "l", "e">>

P_exists == <<"e", "x", "i", "s", "t", "s", "/">>

E_ls == <<"l", "s", ":", " ", "c", "a", "n", "n", "o", "t", " ", "a", "c", "c", "e", "s", "s", " ", "t", "e", "s", "t", "f", "i", "l", "e", ":", " ", "N", "o", " ", "s", "u", "c", "h", " ", "f", "i", "l", "e", " ", "o", "r", " ", "d", "i", "r", "e", "c", "t", "o", "r", "y", "\n">>

E_rm == <<"r", "m", ":", " ", "c", "a", "n", "n", "o", "t", " ", "r", "e", "m", "o", "v", "e", " ", "`", "t", "e", "s", "t", "f", "i", "l", "e", "'", ":", " ", "N", "o", " ", "s", "u", "c", "h", " ", "f", "i", "l", "e", " ", "o", "r", " ", "d", "i", "r", "e", "c", "t", "o", "r", "y", "\n">>

O_testfile == <<"t", "e", "s", "t", "f", "i", "l", "e", "\n">>

\* create_statemachine(outfilename): the members in the order written
create_statemachine ==
    << <<C_ls \o S_out, <<>>>>,
       <<C_ls \o S_err, E_ls>>,
       <<C_ls \o S_exit, <<"2">>>>,
       <<P_exists \o C_ls \o S_out, O_testfile>>,
       <<C_rm \o S_out, <<>>>>,
       <<C_rm \o S_exit, <<"1">>>>,
       <<C_rm \o S_err, E_rm>>,
       <<P_exists \o C_rm \o S_out, <<>>>>,
       <<P_exists \o C_rm \o S_state, <<>>>>,
       <<C_touch \o S_out, <<>>>>,
       <<C_touch \o S_state, P_exists>>,
       <<P_exists \o C_touch \o S_out, <<>>>> >>

\* the commands of test_zipfile_crafted, as argument lists and as shell lines
CraftedCommands ==
    [args : {<<<<"l", "s">>, <<"t", "e", "s", "t", "f", "i", "l", "e">>>>, <<<<"t", "o", "u", "c", "h">>, <<"t", "e", "s", "t", "f", "i", "l", "e">>>>, <<<<"r", "m">>, <<"t", "e", "s", "t", "f", "i", "l", "e">>>>},
     shell : {FALSE}]
    \cup [args : {C_ls, C_touch, C_rm}, shell : {TRUE}]

\* ls, touch and rm run in a directory (the InDirectory context of the
\* test): exists tells whether testfile is there
InDirectory_call(exists, command) ==
    IF command = C_touch
    THEN [exists |-> TRUE,
          process |-> [stdout |-> <<>>, stderr |-> <<>>, returncode |-> 0]]
    ELSE IF command = C_rm
    THEN [exists |-> FALSE,
          process |-> IF exists
                      THEN [stdout |-> <<>>, stderr |-> <<>>, returncode |-> 0]
                      ELSE [stdout |-> <<>>, stderr |-> E_rm, returncode |-> 1]]
    ELSE [exists |-> exists,
          process |-> IF exists
                      THEN [stdout |-> O_testfile, stderr |-> <<>>, returncode |-> 0]
                      ELSE [stdout |-> <<>>, stderr |-> E_ls, returncode |-> 2]]

\* largest number of commands replayed
MaxCommands == 3

\* a scenario of the executions package: the calls made so far are in
\* callArgs, the context objects in contexts
InitContexts(objects) ==
    /\ server = ParsedServer
    /\ outputs = BaseTransition_initialize_empty(server)
    /\ primary = PrimaryUnset
    /\ predictions = 0
    /\ lastOp = "__init__"
    /\ lastOutput = None
    /\ raised = NoException
    /\ returned = None
    /\ repaired = None
    /\ loaded = None
    /\ callArgs = <<>>
    /\ result = None
    /\ contexts \in objects

\* a step on the context objects that leaves calls as the calls made
Execute(op, exc, calls, res, objects) ==
    /\ lastOp' = op
    /\ raised' = exc
    /\ callArgs' = calls
    /\ result' = res
    /\ contexts' = objects
    /\ UNCHANGED <<server, outputs, primary, predictions, lastOutput,
                   returned, repaired, loaded>>

\* test_zipfile_crafted: zip_context and in_tempdir
InitReplay ==
    InitContexts({[zip_context |-> ZipfileContext_init(create_statemachine),
                   in_tempdir |-> FALSE]})

\* AssertEqualJobs(argv, shell, context=both_contexts, accept_errors=True)
\* without its assertion: the results of read_with_error() in both contexts
AssertEqualJobs ==
    /\ Len(callArgs) < MaxCommands
    /\ raised = NoException
    /\ \E job \in CraftedCommands :
        \E z \in {ZipfileContext_call(contexts.zip_context, job.args, job.shell)},
           d \in {InDirectory_call(contexts.in_tempdir,
                                   CondensedArgs(job.args, job.shell))} :
            Execute("AssertEqualJobs", z.raised, Append(callArgs, job),
                    IF z.raised = NoException
                    THEN Some(<<ManagedExecution_read_with_error(Get(z.process)),
                                ManagedExecution_read_with_error(d.process)>>)
                    ELSE None,
                    [zip_context |-> z.self, in_tempdir |-> d.exists])

NextReplay == AssertEqualJobs

SpecReplay == InitReplay /\ [][NextReplay]_vars

\* C23: on the archive of create_statemachine every sequence of ls, touch
\* and rm on testfile gets from the ZipfileContext, command by command, the
\* (stdout, stderr, exit code) a directory gives in which touch creates
\* testfile and rm removes it; the state prefix follows the .state members.
ReplayMatchesDirectory ==
    lastOp = "AssertEqualJobs" =>
        /\ raised = NoException
        /\ Get(result)[1] = Get(result)[2]
        /\ contexts.zip_context.state_prefix =
              IF contexts.in_tempdir THEN P_exists ELSE <<>>

\* touch, rm, ls: the file is gone again and ls fails with exit code 2
ReplayMatchesDirectory_witness ==
    /\ Len(callArgs) = 3
    /\ CondensedArgs(callArgs[1].args, callArgs[1].shell) = C_touch
    /\ CondensedArgs(callArgs[2].args, callArgs[2].shell) = C_rm
    /\ CondensedArgs(callArgs[3].args, callArgs[3].shell) = C_ls
    /\ ~callArgs[3].shell
    /\ Get(result)[1] = <<<<>>, E_ls, 2>>
    /\ contexts.zip_context.state_prefix = <<>>

\* ------------------------------------------------------------------------
\* ZipfileLoggingContext, and the replay of what it wrote
\* ------------------------------------------------------------------------

\* ZipfileLoggingContext.__init__(zipfilename, store_states)
ZipfileLoggingContext_init(store_states) ==
    [zipfile |-> ZipFile_new,
     store_states |-> TRUE,
     current_state |-> <<>>,
     incrementing_state_number |-> 0]

\* variant: a __call__ that never leaves the current state
ZipfileLoggingContext_call_flat(self, args, shell) ==
    [self |-> self,
     condensed_args |-> CondensedArgs(args, shell),
     base_state |-> self.current_state,
     next_state |-> self.current_state]

\* ZipfileLoggingContext.__call__(args, shell) with next_state=None: the
\* context afterwards and what the _finished_execution hook is bound to
ZipfileLoggingContext_call(self, args, shell) ==
    IF self.store_states
    THEN [self |-> [self EXCEPT
                      !.incrementing_state_number = @ + 1,
                      !.current_state =
                          FormatInt(self.incrementing_state_number + 1) \o <<"/">>],
          condensed_args |-> CondensedArgs(args, shell),
          base_state |-> self.current_state,
          next_state |-> FormatInt(self.incrementing_state_number + 1) \o <<"/">>]
    ELSE [self |-> self,
          condensed_args |-> CondensedArgs(args, shell),
          base_state |-> self.current_state,
          next_state |-> self.current_state]

\* ZipfileLoggingContext.store(args, stdout, stderr, returncode, base_state,
\* next_state)
ZipfileLoggingContext_store(self, args, process, base_state, next_state) ==
    [self EXCEPT !.zipfile =
        @ \o << <<base_state \o args \o S_out, process.stdout>> >>
          \o (IF process.stderr # <<>>
              THEN << <<base_state \o args \o S_err, process.stderr>> >>
              ELSE <<>>)
          \o (IF process.returncode # 0
              THEN << <<base_state \o args \o S_exit,
                        FormatInt(process.returncode)>> >>
              ELSE <<>>)
          \o (IF next_state # base_state
              THEN << <<base_state \o args \o S_state, next_state>> >>
              ELSE <<>>)]

\* largest number of commands logged
MaxLogged == 2

\* the commands logged: a shell line, an argument list, and a program in the
\* directory 1
LoggedCommands ==
    [args : {<<"x">>, <<"1", "/", "x">>}, shell : {TRUE}]
    \cup [args : {<<<<"l", "s">>, <<"-", "l">>>>}, shell : {FALSE}]

\* what the underlying context lets them write and return
LoggedProcesses ==
    {[stdout |-> <<"a">>, stderr |-> <<>>, returncode |-> 0],
     [stdout |-> <<"b">>, stderr |-> <<>>, returncode |-> 0],
     [stdout |-> <<>>, stderr |-> <<"e">>, returncode |-> 1]}

\* ZipfileLoggingContext(zipfilename, store_states): constructed keeps the
\* argument given, replaying is the ZipfileContext opened after close()
InitLogging ==
    InitContexts({[constructed |-> [store_states |-> b],
                   logging |-> ZipfileLoggingContext_init(b),
                   replaying |-> None] : b \in BOOLEAN})

\* ManagedExecution(args, context=logging, shell=shell).read_with_error():
\* the context is called, the process ends, the hook stores its results
Log ==
    /\ contexts.replaying = None
    /\ Len(callArgs) < MaxLogged
    /\ \E job \in LoggedCommands, process \in LoggedProcesses :
        \E c \in {ZipfileLoggingContext_call(contexts.logging, job.args, job.shell)} :
            Execute("log", NoException,
                    Append(callArgs, [args |-> job.args, shell |-> job.shell,
                                      process |-> process]),
                    None,
                    [contexts EXCEPT !.logging =
                        ZipfileLoggingContext_store(c.self, c.condensed_args,
                            process, c.base_state, c.next_state)])

\* logging.close(), then ZipfileContext(zipfilename) on the file written
Close ==
    /\ contexts.replaying = None
    /\ Execute("close", NoException, callArgs, Some(<<>>),
               [contexts EXCEPT !.replaying =
                   Some(ZipfileContext_init(contexts.logging.zipfile))])

\* the next logged command is given to the ZipfileContext
Replay ==
    /\ contexts.replaying # None
    /\ raised = NoException
    /\ Len(Get(result)) < Len(callArgs)
    /\ \E z \in {ZipfileContext_call(Get(contexts.replaying),
                                     callArgs[Len(Get(result)) + 1].args,
                                     callArgs[Len(Get(result)) + 1].shell)} :
        Execute("replay", z.raised, callArgs,
                IF z.raised = NoException
                THEN Some(Append(Get(result), Get(z.process)))
                ELSE result,
                [contexts EXCEPT !.replaying = Some(z.self)])

NextLogging == Log \/ Close \/ Replay

SpecLogging == InitLogging /\ [][NextLogging]_vars

\* the text of the call number i as it is stored
LoggedLine(i) == CondensedArgs(callArgs[i].args, callArgs[i].shell)

\* C24: a ZipfileLoggingContext created with store_states=False stays in
\* the empty state, stores every record under the bare command and never
\* writes a .state member.
FlatWithoutStates ==
    contexts.constructed.store_states = FALSE =>
        /\ contexts.logging.current_state = <<>>
        /\ \A k \in 1..Len(contexts.logging.zipfile) :
            \E i \in 1..Len(callArgs) :
                contexts.logging.zipfile[k][1]
                    \in {LoggedLine(i) \o S_out, LoggedLine(i) \o S_err,
                         LoggedLine(i) \o S_exit}

\* every command replayed so far got the results that were logged for it
ReplayedAsLogged ==
    /\ raised = NoException
    /\ \A i \in 1..Len(Get(result)) : Get(result)[i] = callArgs[i].process

\* C28 as stated: with state storing on, the commands of the log, given in
\* the same order to a ZipfileContext on the ZIP written, each get the
\* stdout, stderr and exit code that were logged, whatever the commands are.
LogReplayRoundTrip ==
    (contexts.constructed.store_states /\ contexts.replaying # None) =>
        ReplayedAsLogged

\* the command line begins with the name of a state the log can be in
BeginsWithState(line) ==
    \E n \in 1..MaxLogged : StartsWith(line, FormatInt(n) \o <<"/">>)

\* C28: with state storing on, the commands of the log, given in the same
\* order to a ZipfileContext on the ZIP written, each get the stdout, stderr
\* and exit code that were logged, also when a command occurs several times
\* with different results, provided no command line begins with the name of
\* a state.
RoundTripOfPlainCommands ==
    (/\ contexts.constructed.store_states
     /\ contexts.replaying # None
     /\ \A i \in 1..Len(callArgs) : ~BeginsWithState(LoggedLine(i))) =>
        ReplayedAsLogged

\* the same command logged twice with different results, both replayed
RoundTripOfPlainCommands_witness ==
    /\ contexts.constructed.store_states
    /\ contexts.replaying # None
    /\ Len(callArgs) = 2
    /\ LoggedLine(1) = LoggedLine(2)
    /\ ~BeginsWithState(LoggedLine(1))
    /\ callArgs[1].process.returncode = 1
    /\ callArgs[2].process.returncode = 0
    /\ Len(Get(result)) = 2
    /\ Get(result)[1].returncode = 1
    /\ Get(result)[2].returncode = 0

\* ------------------------------------------------------------------------
\* BaseTransition.serialize and the order of a dictionary
\*
\* transition.outputs and server.outputs are dict objects of Python 2: items()
\* walks the hash table, an order that is fixed for a dictionary but is not
\* the order in which its keys were inserted.  Here both orders are drawn:
\* inserted is the order in which _initialize_empty inserted the outputs (the
\* walk of server.outputs), items the order in which outputs.items() walks.
\* ------------------------------------------------------------------------

RECURSIVE BaseTransition_serialize_items_all(_, _, _)
\* variant: a group for every output, with or without arguments
BaseTransition_serialize_items_all(items, outs, pri) ==
    IF Len(items) = 0 THEN <<>>
    ELSE <<OPT_output, items[1]>>
         \o TransitionOutput_serialize(items[1], outs[items[1]], pri)
         \o BaseTransition_serialize_items_all(Tail(items), outs, pri)

RECURSIVE BaseTransition_serialize_items(_, _, _)
\* the loop of BaseTransition.serialize over outputs.items()
BaseTransition_serialize_items(items, outs, pri) ==
    IF Len(items) = 0 THEN <<>>
    ELSE (IF TransitionOutput_serialize(items[1], outs[items[1]], pri) # <<>>
          THEN <<OPT_output, items[1]>>
               \o TransitionOutput_serialize(items[1], outs[items[1]], pri)
          ELSE <<>>)
         \o BaseTransition_serialize_items(Tail(items), outs, pri)

\* Transition.serialize(): validate, --noprimary, the groups of the outputs
Transition_serialize_items(items, outs, pri) ==
    IF BaseTransition_validate(outs) # NoException
    THEN [exc |-> BaseTransition_validate(outs), ret |-> None]
    ELSE [exc |-> NoException,
          ret |-> Some((IF pri = NO_PRIMARY THEN <<OPT_noprimary>> ELSE <<>>)
                       \o BaseTransition_serialize_items(items, outs, pri))]

\* attribute states an output of the transition is in
SerializedStates ==
    {EmptyTransitionOutput,
     [EmptyTransitionOutput EXCEPT !.off = TRUE],
     [EmptyTransitionOutput EXCEPT !.rate = Some(600)],
     [EmptyTransitionOutput EXCEPT !.named_mode = Some(Name_2x2),
                                   !.position = Some(<<2, 0>>)],
     [EmptyTransitionOutput EXCEPT !.auto = TRUE, !.off = TRUE]}

\* the orders a dictionary of the outputs of the snapshot can have
OutputOrders == {<<LVDS1, HDMI1>>, <<HDMI1, LVDS1>>}

SerializeCalls ==
    [inserted : OutputOrders,
     items : OutputOrders,
     outputs : [DOMAIN ParsedServer.outputs -> SerializedStates],
     primary : {PrimaryUnset, NO_PRIMARY, PrimaryOutput(HDMI1)}]

InitSerialize == InitCall(SerializeCalls)

\* transition.serialize()
SerializeItems ==
    \E r \in {Transition_serialize_items(callArgs.items, callArgs.outputs,
                                         callArgs.primary)} :
        Call("serialize", r.exc, r.ret)

NextSerialize == SerializeItems

SpecSerialize == InitSerialize /\ [][NextSerialize]_vars

\* the output has at least one pending change
HasPendingChange(name) ==
    \/ callArgs.outputs[name] # EmptyTransitionOutput
    \/ callArgs.primary = PrimaryOutput(name)

\* the names that follow --output in the argument vector, in its order
GroupNames(argv) ==
    [k \in 1..Cardinality({i \in 1..Len(argv) : argv[i] = OPT_output}) |->
        argv[1 + CHOOSE i \in 1..Len(argv) :
                    /\ argv[i] = OPT_output
                    /\ Cardinality({j \in 1..i : argv[j] = OPT_output}) = k]]

RECURSIVE Groups(_)
\* --output <name> and the arguments of the output, for each name in turn
Groups(names) ==
    IF Len(names) = 0 THEN <<>>
    ELSE <<OPT_output, names[1]>>
         \o TransitionOutput_serialize(names[1], callArgs.outputs[names[1]],
                                       callArgs.primary)
         \o Groups(Tail(names))

\* the vector serialize() returned holds a group exactly for the outputs
\* with a pending change, in the given order of the outputs, each --output
\* <name> followed by the arguments of that output; nothing is pending: empty
SerializedInOrder(order) ==
    (lastOp = "serialize" /\ raised = NoException) =>
        /\ GroupNames(Get(result)) = SelectSeq(order, HasPendingChange)
        /\ Get(result) = (IF callArgs.primary = NO_PRIMARY
                          THEN <<OPT_noprimary>> ELSE <<>>)
                         \o Groups(GroupNames(Get(result)))
        /\ ((\A name \in DOMAIN callArgs.outputs : ~HasPendingChange(name))
             /\ callArgs.primary = PrimaryUnset) => Get(result) = <<>>

W_xrandr == <<"x", "r", "a", "n", "d", "r">>

\* Server._output(*args): the command given to the context, and the
\* exception made of a CalledProcessError
Server_output(context, args, process) ==
    [context |-> [context EXCEPT !.executed = Append(@, <<W_xrandr>> \o args)],
     raised |-> IF ManagedExecution_read(process).raised # NoException
                THEN Exception("Exception", "XRandR returned error code")
                ELSE NoException]

\* variant: an apply() that serializes without validating
Server_apply_unvalidated(context, transition, process) ==
    Server_output(context,
        Get(BaseTransition_serialize_unchecked(transition.outputs,
                                               transition.primary).ret),
        process)

\* Server.apply(transition)
Server_apply(context, transition, process) ==
    IF TransitionForPrimary_serialize(transition.outputs,
                                      transition.primary).exc # NoException
    THEN [context |-> context,
          raised |-> TransitionForPrimary_serialize(transition.outputs,
                                                    transition.primary).exc]
    ELSE Server_output(context,
            Get(TransitionForPrimary_serialize(transition.outputs,
                                               transition.primary).ret),
            process)

\* the transitions applied
AppliedTransitions ==
    [outputs : [DOMAIN ParsedServer.outputs -> SerializedStates],
     primary : {PrimaryUnset, NO_PRIMARY, PrimaryOutput(HDMI1)}]

\* what xrandr does when it is run
XrandrProcesses ==
    {[stdout |-> <<>>, stderr |-> <<>>, returncode |-> 0],
     [stdout |-> <<>>, stderr |-> <<"x", "r", "a", "n", "d", "r", ":", " ", "C", "o", "n", "f", "i", "g", "u", "r", "e", " ", "c", "r", "t", "c", " ", "0", " ", "f", "a", "i", "l", "e", "d", "\n">>,
      returncode |-> 1]}

InitApply == InitContexts({[executed |-> <<>>]})

\* server.apply(transition), as save_to_x calls it
Apply ==
    /\ callArgs = <<>>
    /\ \E transition \in AppliedTransitions, process \in XrandrProcesses :
        \E r \in {Server_apply(contexts, transition, process)} :
            Execute("apply", r.raised, <<transition>>, None, r.context)

NextApply == Apply

SpecApply == InitApply /\ [][NextApply]_vars

\* C26: apply() runs xrandr only after serialize(), and so validate(), has
\* succeeded: on a transition validate() rejects, apply() raises that
\* exception and no command is executed; otherwise the one command executed
\* is xrandr with the serialized vector.
ApplyValidatesFirst ==
    lastOp = "apply" =>
        IF BaseTransition_validate(callArgs[1].outputs) # NoException
        THEN /\ raised = BaseTransition_validate(callArgs[1].outputs)
             /\ contexts.executed = <<>>
        ELSE /\ Len(contexts.executed) = 1
             /\ StartsWith(contexts.executed[1], <<W_xrandr>>)

\* a transition with --auto and --off on LVDS1 is refused before xrandr runs
ApplyValidatesFirst_witness ==
    /\ lastOp = "apply"
    /\ callArgs[1].outputs[LVDS1].auto
    /\ callArgs[1].outputs[LVDS1].off
    /\ raised.type = "InadequateConfiguration"
    /\ contexts.executed = <<>>

\* ------------------------------------------------------------------------
\* Repeated predictions: the 'changed' handler of the widget calls
\* predict_server() after every change of the transition
\* ------------------------------------------------------------------------

\* largest number of predictions in a run
MaxRepredictions == 2

InitPredict == Init

\* an attribute of an output is assigned, before or after a prediction
Assign(name, field, value) ==
    /\ outputs[name][field] # value
    /\ outputs' = [outputs EXCEPT ![name][field] = value]
    /\ Returns("setattr", None)
    /\ UNCHANGED <<server, primary, predictions>>

\* output.off = v
AssignOff == \E name \in DOMAIN outputs, v \in BOOLEAN : Assign(name, "off", v)

\* output.position = v
AssignPosition ==
    \E name \in DOMAIN outputs, v \in {None} \cup {Some(p) : p \in SetPositions} :
        Assign(name, "position", v)

\* transition.predict_server(), as often as the transition changes
Repredict ==
    \E r \in {BaseTransition_predict_server(outputs, server, 1)} :
        /\ predictions < MaxRepredictions
        /\ server' = r.server
        /\ predictions' = predictions + 1
        /\ Outcome("predict_server", None, r.exc, None)
        /\ repaired' = None
        /\ loaded' = None
        /\ UNCHANGED <<outputs, primary>>

NextPredict == AssignOff \/ AssignPosition \/ Repredict

SpecPredict == InitPredict /\ [][NextPredict]_vars

\* C27: what predict_server() leaves as the predicted outputs depends only
\* on the snapshot as parsed and on the attributes the transition has now: it
\* is what one prediction from the parsed snapshot gives, whatever was
\* predicted before (off set, predicted, off cleared, predicted again: active
\* with the parsed geometry).
PredictionFromScratch ==
    (lastOp = "predict_server" /\ raised = NoException) =>
        \A name \in DOMAIN outputs :
            /\ server.outputs[name].active =
                  BaseTransition_predict_server(outputs, ParsedServer, 1)
                      .server.outputs[name].active
            /\ server.outputs[name].geometry =
                  BaseTransition_predict_server(outputs, ParsedServer, 1)
                      .server.outputs[name].geometry

\* ------------------------------------------------------------------------
\* Server.Output.polygon (server.py)
\* ------------------------------------------------------------------------

\* Geometry.size
Geometry_size(g) == <<g[1], g[2]>>

\* Output.polygon: the vertices given to ConvexPolygon
Output_polygon(geometry) ==
    << Geometry_position(geometry),
       <<Geometry_position(geometry)[1] + Geometry_size(geometry)[1],
         Geometry_position(geometry)[2]>>,
       <<Geometry_position(geometry)[1] + Geometry_size(geometry)[1],
         Geometry_position(geometry)[2] + Geometry_size(geometry)[2]>>,
       <<Geometry_position(geometry)[1],
         Geometry_position(geometry)[1] + Geometry_size(geometry)[2]>> >>

\* geometries of an active output
OutputGeometries ==
    {Geometry(width, height, left, top) :
        width \in 1..MaxSide, height \in 1..MaxSide,
        left \in 0..MaxCoordinate, top \in 0..MaxCoordinate}

InitOutline == InitCall(OutputGeometries)

\* output.polygon, as _get_point_outputs reads it
Polygon ==
    \E r \in {Output_polygon(callArgs)} : Call("polygon", NoException, Some(r))

NextOutline == Polygon

SpecOutline == InitOutline /\ [][NextOutline]_vars

\* C29: the polygon of an active output has the four vertices (left, top),
\* (left+width, top), (left+width, top+height) and (left, top+height) of
\* its geometry, whatever the offsets are.
PolygonOutlinesGeometry ==
    lastOp = "polygon" =>
        Get(result) =
            << <<Geometry_left(callArgs), Geometry_top(callArgs)>>,
               <<Geometry_left(callArgs) + Geometry_width(callArgs),
                 Geometry_top(callArgs)>>,
               <<Geometry_left(callArgs) + Geometry_width(callArgs),
                 Geometry_top(callArgs) + Geometry_height(callArgs)>>,
               <<Geometry_left(callArgs),
                 Geometry_top(callArgs) + Geometry_height(callArgs)>> >>

\* ------------------------------------------------------------------------
\* The handlers of the output tabs (widget/output.py) on the transition
\* load_from_x builds (widget/main.py)
\*
\* Each handler ends with emit('changed'), which the main widget answers with
\* transition.predict_server(); an exception of that answer stays in the
\* signal handler.
\* ------------------------------------------------------------------------

\* _make_transition_nonempty, one output of the loop
TransitionWidget_make_output_nonempty(to, so) ==
    IF so.active
    THEN TransitionOutputForPosition_set_any_position(
             TransitionOutputForMode_set_any_mode(to, so).out, so).out
    ELSE [to EXCEPT !.off = TRUE]

\* bool(transition_output.named_mode or transition_output.precise_mode)
HasMode(to) ==
    \/ (to.named_mode # None /\ Get(to.named_mode) # <<>>)
    \/ (to.precise_mode # None /\ Get(to.precise_mode) # 0)

\* what a handler leaves: the attributes, the exception it ended with, and
\* whether it came to emit('changed')
Handler(out, exc) == [out |-> out, exc |-> exc, changed |-> exc = NoException]

Unhandled(to) == [out |-> to, exc |-> NoException, changed |-> FALSE]

\* set_any_mode() followed by set_any_position()
SetAnyModeAndPosition(m, so) ==
    IF m.exc # NoException THEN Handler(m.out, m.exc)
    ELSE Handler(TransitionOutputForPosition_set_any_position(m.out, so).out,
                 TransitionOutputForPosition_set_any_position(m.out, so).exc)

\* BaseTab.set_active(widget) with widget.props.active = active
BaseTab_set_active(to, so, active) ==
    IF active = HasMode(to) THEN Unhandled(to)
    ELSE IF active
    THEN SetAnyModeAndPosition(TransitionOutputForMode_set_any_mode(to, so), so)
    ELSE Handler([to EXCEPT !.named_mode = None, !.rate = None,
                            !.precise_mode = None, !.auto = FALSE,
                            !.off = TRUE, !.position = None],
                 NoException)

\* variant: a set_auto that keeps the mode of the output
AutomationTab_set_auto_keeping_mode(to, active) ==
    IF to.auto = active THEN Unhandled(to)
    ELSE Handler([to EXCEPT !.auto = active], NoException)

\* AutomationTab.set_auto(widget)
AutomationTab_set_auto(to, active) ==
    IF to.auto = active THEN Unhandled(to)
    ELSE IF active
    THEN Handler([to EXCEPT !.named_mode = None, !.rate = None,
                            !.precise_mode = None, !.off = FALSE,
                            !.position = None, !.auto = TRUE],
                 NoException)
    ELSE Handler([to EXCEPT !.auto = FALSE], NoException)

\* AutomationTab.set_explicit_mode(widget)
AutomationTab_set_explicit_mode(to, so, active) ==
    IF active = HasMode(to) THEN Unhandled(to)
    ELSE IF active
    THEN Handler(TransitionOutputForMode_set_any_mode(to, so).out,
                 TransitionOutputForMode_set_any_mode(to, so).exc)
    ELSE Handler([to EXCEPT !.named_mode = None, !.rate = None,
                            !.precise_mode = None],
                 NoException)

\* AutomationTab.set_explicit_position(widget); a Position is a pair and so
\* true whenever it is set
AutomationTab_set_explicit_position(to, so, active) ==
    IF active = (to.position # None) THEN Unhandled(to)
    ELSE IF active
    THEN Handler(TransitionOutputForPosition_set_any_position(to, so).out,
                 TransitionOutputForPosition_set_any_position(to, so).exc)
    ELSE Handler([to EXCEPT !.position = None], NoException)

\* BaseTab.set_primary(widget) on the tab of the output name
BaseTab_set_primary(pri, name, active) ==
    IF active = (pri = PrimaryOutput(name)) THEN Unhandled(pri)
    ELSE IF active THEN Handler(PrimaryOutput(name), NoException)
    ELSE Handler(NO_PRIMARY, NoException)

\* AutomationTab.set_explicit_primary(widget)
AutomationTab_set_explicit_primary(pri, active) ==
    IF active = (pri # PrimaryUnset) THEN Unhandled(pri)
    ELSE IF active THEN Handler(NO_PRIMARY, NoException)
    ELSE Handler(PrimaryUnset, NoException)

\* load_from_x(): Transition(server), _make_transition_nonempty() with a
\* server that reports no primary, for xrandr from 1.4 on and before, and the
\* 'changed' of _xrandr_was_reloaded
InitWidget ==
    /\ outputs = [name \in DOMAIN ParsedServer.outputs |->
                     TransitionWidget_make_output_nonempty(
                         EmptyTransitionOutput, ParsedServer.outputs[name])]
    /\ server = BaseTransition_predict_server(outputs, ParsedServer, 1).server
    /\ primary \in {PrimaryUnset, NO_PRIMARY}
    /\ predictions = 0
    /\ lastOp = "load_from_x"
    /\ lastOutput = None
    /\ raised = NoException
    /\ returned = None
    /\ repaired = None
    /\ loaded = None
    /\ callArgs = None
    /\ result = None
    /\ contexts = None

\* a handler of the tab of the output name has run
Handled(op, name, outs, pri, exc, changed) ==
    /\ outputs' = outs
    /\ primary' = pri
    /\ server' = IF changed
                 THEN BaseTransition_predict_server(outs, server, 1).server
                 ELSE server
    /\ Outcome(op, Some(name), exc, None)
    /\ repaired' = None
    /\ loaded' = None
    /\ UNCHANGED predictions

ClickActive ==
    \E name \in DOMAIN outputs, active \in BOOLEAN :
        \E h \in {BaseTab_set_active(outputs[name], server.outputs[name], active)} :
            Handled("set_active", name, [outputs EXCEPT ![name] = h.out],
                    primary, h.exc, h.changed)

ClickAuto ==
    \E name \in DOMAIN outputs, active \in BOOLEAN :
        \E h \in {AutomationTab_set_auto(outputs[name], active)} :
            Handled("set_auto", name, [outputs EXCEPT ![name] = h.out],
                    primary, h.exc, h.changed)

ClickExplicitMode ==
    \E name \in DOMAIN outputs, active \in BOOLEAN :
        \E h \in {AutomationTab_set_explicit_mode(outputs[name],
                                                  server.outputs[name], active)} :
            Handled("set_explicit_mode", name, [outputs EXCEPT ![name] = h.out],
                    primary, h.exc, h.changed)

ClickExplicitPosition ==
    \E name \in DOMAIN outputs, active \in BOOLEAN :
        \E h \in {AutomationTab_set_explicit_position(outputs[name],
                                                      server.outputs[name], active)} :
            Handled("set_explicit_position", name,
                    [outputs EXCEPT ![name] = h.out], primary, h.exc, h.changed)

ClickPrimary ==
    \E name \in DOMAIN outputs, active \in BOOLEAN :
        \E h \in {BaseTab_set_primary(primary, name, active)} :
            Handled("set_primary", name, outputs, h.out, h.exc, h.changed)

ClickExplicitPrimary ==
    \E name \in DOMAIN outputs, active \in BOOLEAN :
        \E h \in {AutomationTab_set_explicit_primary(primary, active)} :
            Handled("set_explicit_primary", name, outputs, h.out, h.exc, h.changed)

NextWidget ==
    \/ ClickActive
    \/ ClickAuto
    \/ ClickExplicitMode
    \/ ClickExplicitPosition
    \/ ClickPrimary
    \/ ClickExplicitPrimary

SpecWidget == InitWidget /\ [][NextWidget]_vars

\* C30: from the transition load_from_x builds, whatever set_active, set_auto,
\* set_explicit_mode, set_explicit_position, set_primary and
\* set_explicit_primary are called with, every output engages at most one of
\* an explicit mode, auto and off, and validate() does not raise.
HandlersKeepValid ==
    /\ \A name \in DOMAIN outputs :
          Cardinality({i \in 1..3 :
              <<outputs[name].named_mode # None \/ outputs[name].precise_mode # None,
                outputs[name].auto, outputs[name].off>>[i]}) <= 1
    /\ BaseTransition_validate(outputs) = NoException

\* the output that was off is switched on, and the one that had a mode is
\* left to xrandr
HandlersKeepValid_witness ==
    /\ lastOp = "set_auto"
    /\ outputs[LVDS1].auto
    /\ outputs[LVDS1].named_mode = None
    /\ outputs[HDMI1].named_mode # None
    /\ ~outputs[HDMI1].off

====
